---- MODULE Spec2Model ----
(***************************************************************************)
(* Verification model of abokhaled1982/scraper.                            *)
(*                                                                         *)
(* Part I   : the relay transport of src/addon/background.js - the        *)
(*            reconnecting WebSocket client, the chunked begin/chunk/end   *)
(*            transfer, the begin_ack wait, the dedup ledger and the       *)
(*            missing_chunks retry.                                        *)
(* Part II  : the connection keepers of src/facebook/background.js and     *)
(*            src/whatsapp-addon/background.js.                            *)
(* Part III : the button driver of src/facebook/content.js (the same in    *)
(*            src/unnamed/part_000) and its predecessor in                 *)
(*            src/unnamed/part_001.                                        *)
(* Part IV  : the popup loop of src/addon/popup.js and the link opener of  *)
(*            src/whatsapp-addon/content.js.                               *)
(* Part V   : the deal scheduler of src/unnamed/part_004 (part_005,        *)
(*            part_006).                                                   *)
(* Part VI  : the Amazon content script of src/addon/content.js.           *)
(* Part VII : the polling waits of src/addon/content.js,                   *)
(*            src/whatsapp-addon/background.js and src/unnamed/part_003.   *)
(*                                                                         *)
(* A JavaScript string is a sequence of UTF-16 code units, a byte buffer a *)
(* sequence of 0..255, a base64 text a sequence of alphabet indices 0..63  *)
(* with B64Pad for "=".                                                     *)
(*                                                                         *)
(* Time: a stored Date.now() is kept as its age, the milliseconds passed   *)
(* since it was taken, so that `Date.now() - ts` is the age itself; a      *)
(* pending timer is kept as the milliseconds it still has to wait.         *)
(***************************************************************************)
EXTENDS Integers, Sequences, FiniteSets, Bags, TLC

VARIABLES
    \* ---- src/addon/background.js: module state
    ws,               \* the socket the global `ws` refers to (index into readyState)
    readyState,       \* readyState of every WebSocket object created so far
    alive,            \* let alive
    outbox,           \* let outbox: messages sendRaw could not send
    reconnectWaitMs,  \* let reconnectWaitMs, in units of 1/WaitScale ms
    timers,           \* pending setTimeout(() => ensureWS(), d): ms left to wait
    inFlight,         \* const inFlight = new Set()
    recentlySent,     \* const recentlySent = new Map(): id -> age of its timestamp
    lastPayloadById,  \* const lastPayloadById = new Map(): id -> {url, html, meta}
    calls,            \* the invocations of sendHTMLAsStream, each with its position
    waiters,          \* calls suspended in waitForBeginAck, in registration order
    salt,             \* String(Date.now()): [n: the instant's number, fresh: unused yet]
    \* ---- what an observer of the transport sees
    wire,             \* every ws.send(str), in order: the socket, and whether sendRaw
                      \* or flush made the call
    handed,           \* every sendRaw(str), in order, with the call that made it
    savedAt,          \* id -> age of the last saved acknowledgement received
    errSince,         \* ids named by a missing_chunks retry since their last saved
    env,              \* what the environment may still do (sends, retries, ...)
    \* ---- chunkUtf8Base64 applied to one input (specification SpecChunk)
    cstr,             \* str
    cbpc,             \* bytesPerChunk
    cres,             \* the value returned, or NoResult before the call
    \* ---- src/facebook/background.js
    socket,           \* let socket (index into fbReadyState; set at load)
    fbReadyState,     \* readyState of every WebSocket created by connectWebSocket
    fbReconnectTimer, \* let reconnectTimer: the handle last stored, 0 for null
    fbTimers,         \* handles of the setTimeout(connectWebSocket, 5000) still pending
    \* ---- src/whatsapp-addon/background.js
    sock,             \* let sock (index into waReadyState), 0 for null
    waReadyState,     \* readyState of every WebSocket created by connectWS
    connecting,       \* let connecting
    waReconnectTimer, \* let reconnectTimer: the handle last stored, 0 for null
    waTimers,         \* handles of the setTimeout(connectWS, RECONNECT_MS) still pending
    \* ---- the button driver of src/facebook/content.js (and src/unnamed/part_000),
    \*      and its predecessor in src/unnamed/part_001
    script,           \* the content script injected: "content" (content.js),
                      \* "part_000" or "legacy" (part_001)
    doc,              \* the live document: the dialog's text box and the three buttons
    dpc,              \* position of the run: idle, noTrigger, waitTextbox, sleep,
                      \* posted, done, failed (ended by an exception nobody caught)
    response,         \* what the sender of remote_post got back: "pending" until
                      \* its callback runs, then the value passed to sendResponse,
                      \* "undefined" when the port closed without one
    \* ---- what an observer of the driver sees
    lastTick,         \* the last polling tick: the buttons it saw, its target, what it
                      \* did, and the delay it then asked for
    ticks,            \* polling ticks so far (counted up to MaxTicks)
    postenClicks,     \* clicks on Posten so far (counted up to MaxPostenClicks)
    \* ---- src/addon/popup.js: the sequence loop
    loopAbort,        \* let loopAbort
    ppc,              \* position of the popup: idle, starting, then the await the loop
                      \* is suspended at (actions, scroll, sanitize, tabget, send,
                      \* sleep), ended, error, gone (the popup was closed)
    cycle,            \* let cycle (counted up to MaxCycles)
    popupLate,        \* a RUN_SANITIZER or PARSED_HTML was issued with loopAbort set
    \* ---- src/whatsapp-addon/content.js: the link opener
    isRunning,        \* let isRunning
    runs,             \* the invocations of processLinksSequentially: the index i,
                      \* the await it is suspended at, whether STOP_LINK_OPENER came
                      \* while it ran, and whether it opened a link after that
    \* ---- the deal scheduler of src/unnamed/part_004 (part_005 and part_006 are
    \*      versions of it): module state
    autoOpen,         \* let autoOpen
    lastReloadTime,   \* let lastReloadTime, kept as its age
    processed,        \* const processed = new Set()
    queue,            \* const queue = []: the ids of its items, in order
    isDealClicking,   \* let isDealClicking
    expectedTabId,    \* let expectedTabId, 0 for null
    websocket,        \* let websocket: "NULL", or the readyState of the socket
    onUpdated,        \* logFinalUrlOnce is registered with chrome.tabs.onUpdated
    closeTimers,      \* tabs with a pending setTimeout(() => chrome.tabs.remove(..))
    loading,          \* loadProcessedIds suspended at its await: the ids it will get
    reloadChecks,     \* checkForReload invocations suspended at the tab query
    opens,            \* openNextInQueue invocations suspended at an await, by deal id
    \* ---- the browser the scheduler works in
    stored,           \* chrome.storage.local[STORAGE_KEY]
    tabs,             \* the tabs created so far: who opened them and their state
    dealTabsDue,      \* tabs a clicked deal button is about to open
    \* ---- what an observer of the scheduler sees
    dispatched,       \* deal id -> times openNextInQueue took it from the queue
    sinceReload,      \* age of the last chrome.tabs.reload
    reloads,          \* chrome.tabs.reload calls so far (counted up to MaxReloads)
    lastCheck,        \* how the last step of a checkForReload invocation ended
    urlSent,          \* tabs whose URL was written to the socket
    restarts,         \* restarts of the service worker so far
    \* ---- randomSleep(min, max) called over and over (specification SpecSleep)
    sleepMin,         \* min
    sleepMax,         \* max
    sleepDelays,      \* the delay handed to setTimeout by each call so far
    \* ---- the Amazon content script (addon/content.js) in one tab
    location,         \* location.href of the page
    lastRunAt,        \* age of the stored Date.now(): 0 while below the interval
    lastRunUrl,       \* "" or the URL of the last round that sent
    triggerConsumedForUrl, \* URLs whose opener trigger was used up
    clickedOnceForUrl,     \* URLs whose get-link button was clicked
    linkReadyForUrl,       \* URLs whose affiliate link was seen ready
    safeRuns,         \* the bag of suspended safeRun invocations: where, and its href
    \* ---- what an observer of the content script sees
    lastHtml,         \* the message of the latest sendHtml call
    stripeClicks,     \* URL -> btn.click() calls made for it (counted up to MaxStripeClicks)
    sentAge,          \* URL -> age of the last send of that URL
    \* ---- one call of a polling wait (specification SpecPolls)
    waitFn,           \* the function called
    wpc,              \* where the call is: at its test, at its timer, returned
    elapsed,          \* Date.now() - start
    polls,            \* how often the condition was looked at (counted up to MaxPolls)
    wres              \* what the call returned

relayVars == <<ws, readyState, alive, outbox, reconnectWaitMs, timers, inFlight,
               recentlySent, lastPayloadById, calls, waiters, salt, wire, handed,
               savedAt, errSince, env>>
chunkVars == <<cstr, cbpc, cres>>
fbVars == <<socket, fbReadyState, fbReconnectTimer, fbTimers>>
waVars == <<sock, waReadyState, connecting, waReconnectTimer, waTimers>>
driverVars == <<script, doc, dpc, response, lastTick, ticks, postenClicks>>
sleepVars == <<sleepMin, sleepMax, sleepDelays>>
popupVars == <<loopAbort, ppc, cycle, popupLate>>
openerVars == <<isRunning, runs>>
schedVars == <<autoOpen, lastReloadTime, processed, queue, loading, reloadChecks, opens,
               stored, dispatched, sinceReload, reloads, lastCheck, restarts>>
tabVars == <<isDealClicking, expectedTabId, websocket, onUpdated, closeTimers, tabs,
             dealTabsDue, urlSent>>
dealVars == <<schedVars, tabVars>>
pollVars == <<waitFn, wpc, elapsed, polls, wres>>
amazonVars == <<location, lastRunAt, lastRunUrl, triggerConsumedForUrl,
                clickedOnceForUrl, linkReadyForUrl, safeRuns, lastHtml,
                stripeClicks, sentAge>>
vars == <<relayVars, chunkVars, fbVars, waVars, driverVars, sleepVars,
          popupVars, openerVars, dealVars, amazonVars, pollVars>>

\* what the steps of one part leave alone
outsideRelay == <<chunkVars, fbVars, waVars, driverVars, sleepVars,
                  popupVars, openerVars, dealVars, amazonVars, pollVars>>
outsideChunk == <<relayVars, fbVars, waVars, driverVars, sleepVars,
                  popupVars, openerVars, dealVars, amazonVars, pollVars>>
outsideFb == <<relayVars, chunkVars, waVars, driverVars, sleepVars,
               popupVars, openerVars, dealVars, amazonVars, pollVars>>
outsideWa == <<relayVars, chunkVars, fbVars, driverVars, sleepVars,
               popupVars, openerVars, dealVars, amazonVars, pollVars>>
outsideDriver == <<relayVars, chunkVars, fbVars, waVars, sleepVars,
                   popupVars, openerVars, dealVars, amazonVars, pollVars>>
outsideSleep == <<relayVars, chunkVars, fbVars, waVars, driverVars,
                  popupVars, openerVars, dealVars, amazonVars, pollVars>>
outsidePopup == <<relayVars, chunkVars, fbVars, waVars, driverVars,
                  sleepVars, openerVars, dealVars, amazonVars, pollVars>>
outsideOpener == <<relayVars, chunkVars, fbVars, waVars, driverVars,
                   sleepVars, popupVars, dealVars, amazonVars, pollVars>>
outsideDeal == <<relayVars, chunkVars, fbVars, waVars, driverVars, sleepVars,
                 popupVars, openerVars, amazonVars, pollVars>>
outsideAmazon == <<relayVars, chunkVars, fbVars, waVars, driverVars,
                   sleepVars, popupVars, openerVars, dealVars, pollVars>>
outsidePolls == <<relayVars, chunkVars, fbVars, waVars, driverVars,
                  sleepVars, popupVars, openerVars, dealVars, amazonVars>>

(***************************************************************************)
(* Bounds of the model.                                                    *)
(***************************************************************************)
\* user-level sendHTMLAsStream invocations (PARSED_HTML / PRODUCT_HTML messages)
MaxSends == 2
\* automatic resends started by the missing_chunks branch
MaxRetries == 2
\* WebSocket objects created over a run (the first one at load time)
MaxSockets == 2
\* WebSocket objects the relay creates over a run of reconnects
MaxConnSockets == 7
\* WebSocket objects a connection keeper of Part II creates over a run
MaxKeeperSockets == 3
\* polling ticks of the button driver that are counted
MaxTicks == 2
\* clicks on Posten that are counted
MaxPostenClicks == 2
\* the default bytesPerChunk (60_000 in the source) scaled to the payloads below
BytesPerChunk == 2
\* longest string given to chunkUtf8Base64 in SpecChunk, in code units
MaxStrLen == 3
\* largest bytesPerChunk given to chunkUtf8Base64 in SpecChunk
MaxBpc == 4
\* whole dedup windows the clock is advanced by
MaxWindows == 1
\* Math.random() returns one of 0/RandRes, 1/RandRes, ..., (RandRes-1)/RandRes
RandRes == 5
\* largest min and max given to randomSleep in SpecSleep
MaxSleepMs == 4
\* calls of randomSleep in a run of SpecSleep
MaxDraws == 2
\* cycles of the popup's sequence loop that are counted
MaxCycles == 2
\* RUN_LINK_OPENER commands that start a run of the link opener
MaxOpenerRuns == 2
\* deal ids a page of the deal site can show
MaxDeals == 2
\* tabs created while the deal scheduler runs
MaxTabs == 2
\* restarts of the deal scheduler's service worker
MaxRestarts == 1
\* chrome.tabs.reload calls that are counted
MaxReloads == 2
\* times one deal id is taken from the queue that are counted
MaxDispatch == 2
\* checkForReload invocations suspended at the same time
MaxChecks == 2
\* looks at its condition counted for one polling wait
MaxPolls == 101
\* clicks on the SiteStripe button counted per URL
MaxStripeClicks == 2
\* safeRun invocations suspended at the same time in one tab
MaxSafeRuns == 2

(***************************************************************************)
(* Program constants.                                                      *)
(***************************************************************************)
RECENT_WINDOW_MS == 120000
BEGIN_ACK_TIMEOUT_MS == 5000
RECONNECT_MIN_MS == 1000
RECONNECT_CAP_MS == 30000
SCAN_EVERY_MS == 3000
RELOAD_EVERY_MS == 30000
MIN_RUN_INTERVAL_MS == 60000
STRIPE_BUTTON_TIMEOUT_MS == 12000
STRIPE_BUTTON_INTERVAL_MS == 400
AFFILIATE_LINK_TIMEOUT_MS == 25000
AFFILIATE_LINK_INTERVAL_MS == 250
CLICK_SEND_DEADLINE_MS == 1000
CLICK_SEND_RETRY_MS == 80
initialScanRetries == 6
retryDelayMs == 400
\* reconnectWaitMs *= 1.8 is exact in units of 1/WaitScale ms for up to 7 steps
WaitScale == 625

Min(a, b) == IF a <= b THEN a ELSE b
Max(a, b) == IF a >= b THEN a ELSE b

(***************************************************************************)
(* TextEncoder.encode: UTF-16 code units -> UTF-8 bytes.                   *)
(***************************************************************************)
IsHighSurrogate(u) == u >= 55296 /\ u <= 56319
IsLowSurrogate(u) == u >= 56320 /\ u <= 57343

Utf8OfCodePoint(cp) ==
    IF cp < 128 THEN <<cp>>
    ELSE IF cp < 2048 THEN <<192 + (cp \div 64), 128 + (cp % 64)>>
    ELSE IF cp < 65536
        THEN <<224 + (cp \div 4096), 128 + ((cp \div 64) % 64), 128 + (cp % 64)>>
    ELSE <<240 + (cp \div 262144), 128 + ((cp \div 4096) % 64),
           128 + ((cp \div 64) % 64), 128 + (cp % 64)>>

RECURSIVE TextEncode(_)
TextEncode(s) ==
    IF s = <<>> THEN <<>>
    ELSE LET u == Head(s) IN
         IF IsHighSurrogate(u) /\ Len(s) >= 2 /\ IsLowSurrogate(s[2])
             THEN Utf8OfCodePoint(65536 + (u - 55296) * 1024 + (s[2] - 56320))
                      \o TextEncode(Tail(Tail(s)))
         ELSE IF IsHighSurrogate(u) \/ IsLowSurrogate(u)
             THEN <<239, 191, 189>> \o TextEncode(Tail(s))   \* U+FFFD
         ELSE Utf8OfCodePoint(u) \o TextEncode(Tail(s))

(***************************************************************************)
(* btoa over the binary string built with String.fromCharCode(byte).       *)
(***************************************************************************)
B64Pad == 64

RECURSIVE btoa(_)
btoa(bin) ==
    IF Len(bin) = 0 THEN <<>>
    ELSE IF Len(bin) = 1
        THEN <<bin[1] \div 4, (bin[1] % 4) * 16, B64Pad, B64Pad>>
    ELSE IF Len(bin) = 2
        THEN <<bin[1] \div 4, (bin[1] % 4) * 16 + (bin[2] \div 16),
               (bin[2] % 16) * 4, B64Pad>>
    ELSE <<bin[1] \div 4, (bin[1] % 4) * 16 + (bin[2] \div 16),
           (bin[2] % 16) * 4 + (bin[3] \div 64), bin[3] % 64>>
             \o btoa(SubSeq(bin, 4, Len(bin)))

(***************************************************************************)
(* chunkUtf8Base64(str, bytesPerChunk): the loop                           *)
(*   for (let i = 0; i < buf.length; i += bytesPerChunk)                   *)
(*       chunks.push(btoa(bin(buf.slice(i, i + bytesPerChunk))))           *)
(***************************************************************************)
\* faulty variant of the loop: a trailing partial chunk is not visited
RECURSIVE ChunkStartsWhole(_, _, _)
ChunkStartsWhole(i, length, bytesPerChunk) ==
    IF i + bytesPerChunk <= length
        THEN <<i>> \o ChunkStartsWhole(i + bytesPerChunk, length, bytesPerChunk)
        ELSE <<>>

\* the values of i the loop visits
RECURSIVE ChunkStarts(_, _, _)
ChunkStarts(i, length, bytesPerChunk) ==
    IF i < length
        THEN <<i>> \o ChunkStarts(i + bytesPerChunk, length, bytesPerChunk)
        ELSE <<>>

\* faulty variant of slice: `to` taken as inclusive
SliceInclusive(buf, from, to) == SubSeq(buf, from + 1, Min(to + 1, Len(buf)))

\* buf.slice(from, to) with 0-based from, exclusive to, clamped to the length
Slice(buf, from, to) == SubSeq(buf, from + 1, Min(to, Len(buf)))

chunkUtf8Base64(str, bytesPerChunk) ==
    LET buf == TextEncode(str)
        starts == ChunkStarts(0, Len(buf), bytesPerChunk)
    IN [totalBytes |-> Len(buf),
        chunks |-> [k \in 1..Len(starts) |->
                       btoa(Slice(buf, starts[k], starts[k] + bytesPerChunk))]]



(***************************************************************************)
(* Inputs of the relay.                                                    *)
(***************************************************************************)
Urls == {"u"}
\* the entry point passes docType "generic" (PARSED_HTML) or "product" (PRODUCT_HTML)
DocTypes == {"generic", "product"}
\* html: "", "A" (1 byte) and "€" + "é" (3 + 2 bytes)
Empty == <<>>
Short == <<65>>
Long == <<8364, 233>>
\* meta.salt absent ("" after `meta.salt || ""`); String(Date.now()) is never ""
NoSalt == 0

(***************************************************************************)
(* Partial maps (JavaScript Map) as functions.                             *)
(***************************************************************************)
EmptyMap == [x \in {} |-> 0]
MapSet(m, k, v) == [x \in DOMAIN m \cup {k} |-> IF x = k THEN v ELSE m[x]]
MapDelete(m, k) == [x \in DOMAIN m \ {k} |-> m[x]]
MapHas(m, k) == k \in DOMAIN m

SeqRemove(s, c) == SelectSeq(s, LAMBDA x : x # c)
RemoveAt(s, k) == SubSeq(s, 1, k - 1) \o SubSeq(s, k + 1, Len(s))

(***************************************************************************)
(* WebSocket objects.  close() on a connecting socket fails the connection *)
(* (its close event is preceded by an error event); on an open one it      *)
(* starts the closing handshake.                                           *)
(***************************************************************************)
Sockets == 1..MaxConnSockets
KeeperSockets == 1..MaxKeeperSockets
NumSockets == Cardinality({s \in Sockets : readyState[s] # "NONE"})

SocketClose(rs, s) ==
    IF rs[s] = "CONNECTING" THEN [rs EXCEPT ![s] = "CLOSING_ERR"]
    ELSE IF rs[s] = "OPEN" THEN [rs EXCEPT ![s] = "CLOSING"]
    ELSE rs

\* faulty variant of ensureWS: the previous socket is not closed
ensureWSKeepOld(w, rs, al) ==
    IF al /\ rs[w] = "OPEN"
        THEN [ws |-> w, readyState |-> rs]
        ELSE LET n == Cardinality({s \in Sockets : rs[s] # "NONE"}) + 1
             IN [ws |-> n, readyState |-> [rs EXCEPT ![n] = "CONNECTING"]]

\* ensureWS(), lines 47-52: the new `ws` and the sockets' states
ensureWS(w, rs, al) ==
    IF al /\ rs[w] = "OPEN"
        THEN [ws |-> w, readyState |-> rs]
        ELSE LET n == Cardinality({s \in Sockets : rs[s] # "NONE"}) + 1
             IN [ws |-> n,
                 readyState |-> [SocketClose(rs, w) EXCEPT ![n] = "CONNECTING"]]

\* ensureWS() can be taken here: it returns early, or a socket is left to create
CanEnsureWS == (alive /\ readyState[ws] = "OPEN") \/ NumSockets < env.sockets

(***************************************************************************)
(* sendRaw / flush, lines 114-120.  io = [outbox, wire, handed].           *)
(***************************************************************************)
sendRaw(io, who, str) ==
    IF alive /\ readyState[ws] = "OPEN"
        THEN [io EXCEPT !.wire = Append(@, [sock |-> ws, via |-> "sendRaw",
                                            msg |-> str]),
                        !.handed = Append(@, [call |-> who, msg |-> str])]
        ELSE [io EXCEPT !.outbox = Append(@, str),
                        !.handed = Append(@, [call |-> who, msg |-> str])]

\* faulty variant of flush: outbox.pop() in place of outbox.shift()
RECURSIVE flushPop(_, _, _)
flushPop(io, w, rs) ==
    IF io.outbox # <<>> /\ rs[w] = "OPEN"
        THEN flushPop([io EXCEPT !.wire = Append(@, [sock |-> w, via |-> "flush",
                                                     msg |-> io.outbox[Len(io.outbox)]]),
                                 !.outbox = SubSeq(@, 1, Len(@) - 1)], w, rs)
        ELSE io

\* faulty variant of flush: `if` in place of `while`
flushOne(io, w, rs) ==
    IF io.outbox # <<>> /\ rs[w] = "OPEN"
        THEN [io EXCEPT !.wire = Append(@, [sock |-> w, via |-> "flush",
                                            msg |-> Head(io.outbox)]),
                        !.outbox = Tail(@)]
        ELSE io

RECURSIVE flush(_, _, _)
flush(io, w, rs) ==
    IF io.outbox # <<>> /\ rs[w] = "OPEN"
        THEN flush([io EXCEPT !.wire = Append(@, [sock |-> w, via |-> "flush",
                                                  msg |-> Head(io.outbox)]),
                              !.outbox = Tail(@)], w, rs)
        ELSE io

IO == [outbox |-> outbox, wire |-> wire, handed |-> handed]

(***************************************************************************)
(* makeStableId, lines 137-144: SHA-1 of url + "|" + docType + "|" + salt, *)
(* first 16 hex digits.  The digest is taken as injective on its input;    *)
(* html does not enter it.                                                 *)
(***************************************************************************)
\* faulty variant of makeStableId: the content enters the digest
makeContentId(url, html, slt, docType) == <<url, docType, slt, html>>

makeStableId(url, html, slt, docType) == <<url, docType, slt>>

(***************************************************************************)
(* The messages of one transfer, lines 153-180.                            *)
(***************************************************************************)
BeginMsg(id, url, meta, ch) ==
    [type |-> "begin", id |-> id, total |-> Len(ch.chunks),
     totalBytes |-> ch.totalBytes, url |-> url, meta |-> meta]

ChunkMsg(id, url, ch, idx) ==
    [type |-> "chunk", id |-> id, seq |-> idx, total |-> Len(ch.chunks),
     encoding |-> "base64", url |-> url, data |-> ch.chunks[idx + 1]]

EndMsg(id, url, meta) == [type |-> "end", id |-> id, url |-> url, meta |-> meta]

\* chunks.forEach((b64, idx) => sendRaw(chunk idx)), from index idx on
RECURSIVE SendChunks(_, _, _, _, _, _)
SendChunks(io, who, id, url, ch, idx) ==
    IF idx < Len(ch.chunks)
        THEN SendChunks(sendRaw(io, who, ChunkMsg(id, url, ch, idx)),
                        who, id, url, ch, idx + 1)
        ELSE io

\* faulty variant of lines 166-180: the end message is sent before the chunks
EndBeforeChunks(io, c) ==
    LET r == calls[c]
    IN SendChunks(sendRaw(io, c, EndMsg(r.id, r.url, r.meta)), c, r.id, r.url, r.ch, 0)

\* what sendLargeAsChunksWithIdAwait does after `await waitForBeginAck`, lines 166-180,
\* with the {totalBytes, chunks} it computed in line 151
AfterBeginAck(io, c) ==
    LET r == calls[c]
    IN sendRaw(SendChunks(io, c, r.id, r.url, r.ch, 0), c, EndMsg(r.id, r.url, r.meta))

\* the calls of `order` resume one after the other
RECURSIVE ResumeAll(_, _)
ResumeAll(io, order) ==
    IF order = <<>> THEN io
    ELSE ResumeAll(AfterBeginAck(io, Head(order)), Tail(order))

(***************************************************************************)
(* markSent, lines 212-218.  The new timestamp has age 0.                  *)
(***************************************************************************)
\* faulty variant of lines 212-218: the loop of lines 215-217 is left out
markSentNoPrune(inflight, rsent, id) ==
    [inFlight |-> inflight \ {id}, recentlySent |-> MapSet(rsent, id, 0)]

markSent(inflight, rsent, id) ==
    LET m == MapSet(rsent, id, 0)
    IN [inFlight |-> inflight \ {id},
        recentlySent |->
            [k \in {x \in DOMAIN m : ~(m[x] > RECENT_WINDOW_MS)} |-> m[k]]]

(***************************************************************************)
(* sendHTMLAsStream(url, html, meta), lines 224-227: up to the first await *)
(* (the digest of makeStableId).  ensureWS() is left to the caller.        *)
(***************************************************************************)
NoResult == [totalBytes |-> -1, chunks |-> <<>>]
NoNote == [win |-> "none", err |-> FALSE, busy |-> FALSE]
NoCause == <<>>

NewCall(url, html, meta, cause) ==
    LET empty == html = <<>>
        id == makeStableId(url, html, meta.salt, meta.docType)
    IN [url |-> url, html |-> html, meta |-> meta,
        id |-> id,
        pc |-> IF empty THEN "done" ELSE "digest",
        ret |-> IF empty THEN "empty_html" ELSE "none",
        \* const {totalBytes, chunks} of sendLargeAsChunksWithIdAwait, line 151
        ch |-> NoResult,
        waited |-> 0, lsock |-> 0,
        \* observer's notes
        cause |-> cause,
        ackedAtStart |-> id \in (DOMAIN savedAt \cup errSince),
        \* a transfer of id was cut off: id is in flight and one of its messages
        \* went out on a socket that has closed since
        droppedAtStart |->
            /\ id \in inFlight
            /\ \E k \in DOMAIN wire :
                   wire[k].msg.id = id /\ readyState[wire[k].sock] = "CLOSED",
        chk |-> NoNote,
        relBy |-> NoCause,
        relLate |-> FALSE]

UserCalls == {c \in DOMAIN calls : ~calls[c].meta.retry}
RetryCalls == {c \in DOMAIN calls : calls[c].meta.retry}

(***************************************************************************)
(* Initial state: the background page has been loaded, the ensureWS() of   *)
(* line 299 has created the first socket.                                  *)
(***************************************************************************)
RelayInit(e) ==
    /\ ws = 1
    /\ readyState = [s \in Sockets |-> IF s = 1 THEN "CONNECTING" ELSE "NONE"]
    /\ alive = FALSE
    /\ outbox = <<>>
    /\ reconnectWaitMs = RECONNECT_MIN_MS * WaitScale
    /\ timers = <<>>
    /\ inFlight = {}
    /\ recentlySent = EmptyMap
    /\ lastPayloadById = EmptyMap
    /\ calls = <<>>
    /\ waiters = <<>>
    /\ salt = [n |-> 1, used |-> FALSE]
    /\ wire = <<>>
    /\ handed = <<>>
    /\ savedAt = EmptyMap
    /\ errSince = {}
    /\ env = e

ChunkIdle == cstr = <<>> /\ cbpc = 1 /\ cres = NoResult

\* src/facebook/background.js as loaded: connectWebSocket() of line 69 has run
FbInit ==
    /\ socket = 1
    /\ fbReadyState = [s \in KeeperSockets |-> IF s = 1 THEN "CONNECTING" ELSE "NONE"]
    /\ fbReconnectTimer = 0
    /\ fbTimers = {}

\* src/whatsapp-addon/background.js as loaded, lines 8-11: no socket yet
WaInit ==
    /\ sock = 0
    /\ waReadyState = [s \in KeeperSockets |-> "NONE"]
    /\ connecting = FALSE
    /\ waReconnectTimer = 0
    /\ waTimers = {}

(***************************************************************************)
(* The document the button driver works on: whether the dialog's text box  *)
(* exists, and for each of the three buttons whether it is absent,         *)
(* present, or present with aria-disabled="true".                          *)
(***************************************************************************)
Buttons == {"Posten", "Weiter", "Jetzt nicht"}
ButtonStates == {"absent", "enabled", "disabled"}
BlankDocument == [textbox |-> FALSE, btn |-> [b \in Buttons |-> "absent"]]
NoTick == [seen |-> BlankDocument.btn, sel |-> "none", act |-> "none", delay |-> 0]

\* a content script has been injected and no remote_post command has arrived
DriverLoaded(s) ==
    /\ script = s
    /\ doc = BlankDocument
    /\ dpc = "idle"
    /\ response = "pending"
    /\ lastTick = NoTick
    /\ ticks = 0
    /\ postenClicks = 0

\* randomSleep has not been called
SleepIdle == sleepMin = 0 /\ sleepMax = 0 /\ sleepDelays = <<>>

\* src/addon/popup.js as loaded: line 3
PopupLoaded == loopAbort = FALSE /\ ppc = "idle" /\ cycle = 0 /\ popupLate = FALSE

\* src/whatsapp-addon/content.js as loaded on an idealo page: line 9
OpenerRuns == 1..MaxOpenerRuns
NoRun == [i |-> 0, pc |-> "none", stopped |-> FALSE, late |-> FALSE]
OpenerLoaded == isRunning = FALSE /\ runs = [r \in OpenerRuns |-> NoRun]

(***************************************************************************)
(* The deal scheduler as loaded: the module state of part_004 lines 12-26  *)
(* after start() (lines 123-131) has run up to the await of                *)
(* loadProcessedIds, with ids persisted by earlier runs in the storage.    *)
(***************************************************************************)
DealIds == 1..MaxDeals
TabIds == 1..MaxTabs
NoTab == [state |-> "none", by |-> "none"]
\* lastReloadTime = 0: any age of RELOAD_EVERY_MS or more
LongAgo == RELOAD_EVERY_MS

\* the module state a start of the service worker sets up
Started(persisted) ==
    /\ autoOpen = TRUE
    /\ lastReloadTime = LongAgo
    /\ processed = {}
    /\ queue = <<>>
    /\ isDealClicking = FALSE
    /\ expectedTabId = 0
    /\ websocket = "CONNECTING"
    /\ onUpdated = FALSE
    /\ closeTimers = {}
    /\ loading = [pending |-> TRUE, ids |-> persisted]
    /\ reloadChecks = 0
    /\ opens = [d \in DealIds |-> "none"]

SchedulerLoaded ==
    /\ Started({})
    /\ stored = {}
    /\ tabs = [x \in TabIds |-> NoTab]
    /\ dealTabsDue = 0
    /\ dispatched = [d \in DealIds |-> 0]
    /\ sinceReload = LongAgo
    /\ reloads = 0
    /\ lastCheck = "none"
    /\ urlSent = {}
    /\ restarts = 0

\* ---- the Amazon content script: src/addon/content.js
\* the pages of one tab: a product page, the same with the opener trigger,
\* a deals page and a page that is neither
AmazonUrls == {"/dp/B000000001", "/dp/B000000001?ext_trigger=send_html",
               "/deals", "/gp/cart"}
isAmazonProductPath(u) ==
    u \in {"/dp/B000000001", "/dp/B000000001?ext_trigger=send_html"}
isAmazonDealsPath(u) == u = "/deals"
isAmazonTargetPage(u) == isAmazonProductPath(u) \/ isAmazonDealsPath(u)
hasOpenerTrigger(u) == u = "/dp/B000000001?ext_trigger=send_html"

\* what a suspended safeRun invocation can be
SafeRuns == [pc : {"sleep", "button", "link", "pipeline"}, href : AmazonUrls,
             key : AmazonUrls \cup {""}]
\* a safeRun invocation that has returned
NoSafeRun == [pc |-> "none", href |-> "", key |-> ""]
\* the invocations when run has gone on to next
Resumed(run, next) ==
    (safeRuns (-) SetToBag({run}))
        (+) (IF next = NoSafeRun THEN EmptyBag ELSE SetToBag({next}))
NoHtml == [type |-> "", url |-> ""]
\* an age no smaller than the interval: that of the initial lastRunAt = 0
RunLongAgo == MIN_RUN_INTERVAL_MS

\* safeRun up to its first await, lines 222-241: the invocations afterwards
safeRun(href) ==
    IF ~(isAmazonTargetPage(href) \/ hasOpenerTrigger(href)) THEN safeRuns
    ELSE IF href = lastRunUrl /\ lastRunAt < MIN_RUN_INTERVAL_MS THEN safeRuns
    ELSE safeRuns (+) SetToBag({[pc |-> "sleep", href |-> href, key |-> ""]})
\* the model has a place for the invocation safeRun(href) would suspend
Runnable(href) ==
    \/ ~(isAmazonTargetPage(href) \/ hasOpenerTrigger(href))
    \/ href = lastRunUrl /\ lastRunAt < MIN_RUN_INTERVAL_MS
    \/ BagCardinality(safeRuns) < MaxSafeRuns

\* the content script has run its top level on the page: lines 19-23, 304
PageLoaded(url) ==
    /\ location = url
    /\ lastRunAt = RunLongAgo
    /\ lastRunUrl = ""
    /\ triggerConsumedForUrl = {}
    /\ clickedOnceForUrl = {}
    /\ linkReadyForUrl = {}
    /\ safeRuns = IF isAmazonTargetPage(url) \/ hasOpenerTrigger(url)
                  THEN SetToBag({[pc |-> "sleep", href |-> url, key |-> ""]})
                  ELSE EmptyBag
    /\ lastHtml = NoHtml
    /\ stripeClicks = [u \in AmazonUrls |-> 0]
    /\ sentAge = [u \in AmazonUrls |-> RunLongAgo]
AmazonLoaded == PageLoaded("/gp/cart")

\* ---- no polling wait has been called
PollsIdle ==
    waitFn = "none" /\ wpc = "returned" /\ elapsed = 0 /\ polls = 0 /\ wres = "none"

\* the parts a specification of one part leaves as loaded
OthersLoaded ==
    /\ SleepIdle /\ PopupLoaded /\ OpenerLoaded /\ SchedulerLoaded /\ AmazonLoaded
    /\ PollsIdle
KeepersLoaded == FbInit /\ WaInit /\ DriverLoaded("content") /\ OthersLoaded

(***************************************************************************)
(* chrome.runtime.onMessage PARSED_HTML / PRODUCT_HTML, lines 243-261:     *)
(* sendHTMLAsStream(url, html, {source: "ext", docType}) up to its first   *)
(* await.                                                                  *)
(***************************************************************************)
Send(url, html, docType) ==
    /\ env.sends > 0
    /\ [html |-> html, docType |-> docType] \in env.requests
    /\ CanEnsureWS
    /\ LET e == ensureWS(ws, readyState, alive)
       IN /\ ws' = e.ws
          /\ readyState' = e.readyState
    /\ calls' = Append(calls,
                       NewCall(url, html,
                               [source |-> "ext", docType |-> docType,
                                salt |-> NoSalt, retry |-> FALSE],
                               NoCause))
    /\ env' = [env EXCEPT !.sends = @ - 1]
    /\ UNCHANGED <<alive, outbox, reconnectWaitMs, timers, inFlight, recentlySent,
                   lastPayloadById, waiters, salt, wire, handed, savedAt, errSince>>
    /\ UNCHANGED outsideRelay

(***************************************************************************)
(* sendHTMLAsStream after `await makeStableId`, lines 229-236, with the    *)
(* part of sendLargeAsChunksWithIdAwait before its await (begin is sent,   *)
(* waitForBeginAck registers its listener on `ws` and starts its timer).   *)
(***************************************************************************)
\* faulty variant of lines 229-231: the inFlight check is left out
DedupStatusRecentOnly(id) ==
    IF MapHas(recentlySent, id) /\ recentlySent[id] < RECENT_WINDOW_MS
        THEN "recent"
    ELSE "none"

\* faulty variant of lines 229-231: `<=` in place of `<`
DedupStatusInclusive(id) ==
    IF id \in inFlight THEN "in_flight"
    ELSE IF MapHas(recentlySent, id) /\ recentlySent[id] <= RECENT_WINDOW_MS
        THEN "recent"
    ELSE "none"

\* lines 229-231: "in_flight", "recent" or "none"
DedupStatus(id) ==
    IF id \in inFlight THEN "in_flight"
    ELSE IF MapHas(recentlySent, id) /\ recentlySent[id] < RECENT_WINDOW_MS
        THEN "recent"
    ELSE "none"

\* observer's note at the duplicate check: where the check lies relative to the dedup
\* window opened by the last saved acknowledgement of id
Note(id) ==
    [win |-> IF ~MapHas(savedAt, id) THEN "none"
             ELSE IF savedAt[id] < RECENT_WINDOW_MS THEN "within" ELSE "after",
     err |-> id \in errSince,
     busy |-> id \in inFlight]

IdReady(c) ==
    /\ c \in DOMAIN calls
    /\ calls[c].pc = "digest"
    /\ LET r == calls[c]
           d == DedupStatus(r.id)
       IN IF d # "none"
          THEN /\ calls' = [calls EXCEPT ![c].pc = "done", ![c].ret = d,
                                         ![c].chk = Note(r.id)]
               /\ UNCHANGED <<inFlight, lastPayloadById, outbox, wire, handed, waiters>>
          ELSE LET ch == chunkUtf8Base64(r.html, BytesPerChunk)
                   io == sendRaw(IO, c, BeginMsg(r.id, r.url, r.meta, ch))
               IN /\ inFlight' = inFlight \cup {r.id}
                  /\ lastPayloadById' =
                         MapSet(lastPayloadById, r.id,
                                [url |-> r.url, html |-> r.html, meta |-> r.meta])
                  /\ outbox' = io.outbox
                  /\ wire' = io.wire
                  /\ handed' = io.handed
                  /\ calls' = [calls EXCEPT ![c].pc = "wait", ![c].ch = ch,
                                            ![c].waited = 0, ![c].lsock = ws,
                                            ![c].chk = Note(r.id)]
                  /\ waiters' = Append(waiters, c)
    /\ UNCHANGED <<ws, readyState, alive, reconnectWaitMs, timers, recentlySent, salt,
                   savedAt, errSince, env>>
    /\ UNCHANGED outsideRelay

(***************************************************************************)
(* waitForBeginAck, lines 183-205.                                         *)
(***************************************************************************)
\* faulty variant of onMsg: the id of the begin_ack is not compared
onMsgAnyId(c, s, m) ==
    /\ calls[c].lsock = s
    /\ m.type = "begin_ack"

\* onMsg: the listener of call c, registered on socket lsock, sees message m on s
onMsg(c, s, m) ==
    /\ calls[c].lsock = s
    /\ m.type = "begin_ack"
    /\ m.id = calls[c].id

\* faulty variant of waitForBeginAck: no timer is started
NoBeginAckTimer(c) == FALSE

\* the setTimeout(..., timeoutMs) of call c may fire
BeginAckDue(c) == calls[c].waited >= BEGIN_ACK_TIMEOUT_MS

\* the calls of `set` return {ok: true, id}; by == the id of the begin_ack that
\* resumed them (NoCause for the timer)
Finish(cs, set, by) ==
    [c \in DOMAIN cs |->
        IF c \in set
            THEN [cs[c] EXCEPT !.pc = "done", !.ret = "sent", !.lsock = 0,
                               !.relBy = by,
                               !.relLate = cs[c].waited >= BEGIN_ACK_TIMEOUT_MS,
                               !.waited = 0]
            ELSE cs[c]]

BeginAckTimeout(c) ==
    /\ c \in DOMAIN calls
    /\ calls[c].pc = "wait"
    /\ BeginAckDue(c)
    /\ LET io == AfterBeginAck(IO, c)
       IN /\ outbox' = io.outbox
          /\ wire' = io.wire
          /\ handed' = io.handed
    /\ calls' = Finish(calls, {c}, NoCause)
    /\ waiters' = SeqRemove(waiters, c)
    /\ UNCHANGED <<ws, readyState, alive, reconnectWaitMs, timers, inFlight,
                   recentlySent, lastPayloadById, salt, savedAt, errSince, env>>
    /\ UNCHANGED outsideRelay


(***************************************************************************)
(* ws.onmessage, lines 76-111, followed by the begin_ack listeners that    *)
(* waitForBeginAck registered on the same socket.  The server names ids it *)
(* has seen on the wire.                                                   *)
(***************************************************************************)
IdsOnWire == {wire[i].msg.id : i \in DOMAIN wire}

ReplyTypes == {"begin_ack", "ack", "saved", "missing_chunks", "other_error"}
ServerMessages == [type : env.replies, id : IdsOnWire]

\* line 94: the retry branch is taken
RetryWanted(m) == m.type = "missing_chunks" /\ MapHas(lastPayloadById, m.id)

\* lines 99-103: the meta of the resend, salt: String(Date.now())
RetryMeta(meta) == [meta EXCEPT !.retry = TRUE, !.salt = salt.n]

Receive(s, m) ==
    /\ readyState[s] = "OPEN"
    /\ m \in ServerMessages
    /\ IF m.type = "begin_ack"
       THEN LET released == SelectSeq(waiters, LAMBDA c : onMsg(c, s, m))
                io == ResumeAll(IO, released)
            IN /\ outbox' = io.outbox
               /\ wire' = io.wire
               /\ handed' = io.handed
               /\ calls' = Finish(calls, {released[k] : k \in DOMAIN released}, m.id)
               /\ waiters' = SelectSeq(waiters, LAMBDA c : ~onMsg(c, s, m))
               /\ UNCHANGED <<ws, readyState, inFlight, recentlySent, savedAt, errSince,
                              salt, env>>
       ELSE IF m.type = "saved"
       THEN LET r == markSent(inFlight, recentlySent, m.id)
            IN /\ inFlight' = r.inFlight
               /\ recentlySent' = r.recentlySent
               /\ savedAt' = MapSet(savedAt, m.id, 0)
               /\ errSince' = errSince \ {m.id}
               /\ UNCHANGED <<ws, readyState, outbox, wire, handed, calls, waiters,
                              salt, env>>
       ELSE IF RetryWanted(m)
       THEN LET p == lastPayloadById[m.id]
                e == ensureWS(ws, readyState, alive)
            IN /\ env.retries > 0
               /\ CanEnsureWS
               /\ inFlight' = inFlight \ {m.id}
               /\ recentlySent' = MapDelete(recentlySent, m.id)
               /\ ws' = e.ws
               /\ readyState' = e.readyState
               /\ calls' = Append(calls, NewCall(p.url, p.html, RetryMeta(p.meta), m.id))
               /\ salt' = [salt EXCEPT !.used = TRUE]
               /\ errSince' = errSince \cup {m.id}
               /\ env' = [env EXCEPT !.retries = @ - 1]
               /\ UNCHANGED <<outbox, wire, handed, waiters, savedAt>>
       ELSE UNCHANGED <<ws, readyState, outbox, wire, handed, calls, waiters, inFlight,
                        recentlySent, savedAt, errSince, salt, env>>
    /\ UNCHANGED <<alive, reconnectWaitMs, timers, lastPayloadById>>
    /\ UNCHANGED outsideRelay

(***************************************************************************)
(* The events of a socket created by ensureWS, lines 54-73.                *)
(***************************************************************************)
\* ws.onopen
WsOpen(s) ==
    /\ readyState[s] = "CONNECTING"
    /\ readyState' = [readyState EXCEPT ![s] = "OPEN"]
    /\ alive' = TRUE
    /\ reconnectWaitMs' = RECONNECT_MIN_MS * WaitScale
    /\ LET io == flush(IO, ws, readyState')
       IN /\ outbox' = io.outbox
          /\ wire' = io.wire
          /\ handed' = io.handed
    /\ UNCHANGED <<ws, timers, inFlight, recentlySent, lastPayloadById, calls, waiters,
                   salt, savedAt, errSince, env>>
    /\ UNCHANGED outsideRelay

\* the server starts the closing handshake: readyState becomes CLOSING, no event yet
WsClosing(s) ==
    /\ readyState[s] = "OPEN"
    /\ readyState' = [readyState EXCEPT ![s] = "CLOSING"]
    /\ UNCHANGED <<ws, alive, outbox, reconnectWaitMs, timers, inFlight, recentlySent,
                   lastPayloadById, calls, waiters, salt, wire, handed, savedAt,
                   errSince, env>>
    /\ UNCHANGED outsideRelay

\* reconnectWaitMs *= 1.8
NextWait(w) == (w * 9) \div 5
\* faulty variant of the delay: no cap
ReconnectDelayUncapped(w) == w \div WaitScale
\* Math.min(reconnectWaitMs, 30_000), as the whole milliseconds setTimeout waits
ReconnectDelay(w) == Min(w \div WaitScale, RECONNECT_CAP_MS)

\* the connection of s is closed; when it failed, ws.onerror runs before ws.onclose
WsClosed(s, failed) ==
    /\ readyState[s] \in {"CONNECTING", "OPEN", "CLOSING", "CLOSING_ERR"}
    /\ readyState[s] \in {"CONNECTING", "CLOSING_ERR"} => failed
    /\ LET rs1 == [readyState EXCEPT ![s] = "CLOSED"]
       IN readyState' = IF failed THEN SocketClose(rs1, ws) ELSE rs1
    /\ alive' = FALSE
    /\ reconnectWaitMs' = NextWait(reconnectWaitMs)
    /\ timers' = Append(timers, ReconnectDelay(NextWait(reconnectWaitMs)))
    /\ UNCHANGED <<ws, outbox, inFlight, recentlySent, lastPayloadById, calls, waiters,
                   salt, wire, handed, savedAt, errSince, env>>
    /\ UNCHANGED outsideRelay

\* a setTimeout(() => ensureWS(), d) of ws.onclose fires
ReconnectTimer(k) ==
    /\ k \in DOMAIN timers
    /\ timers[k] = 0
    /\ CanEnsureWS
    /\ LET e == ensureWS(ws, readyState, alive)
       IN /\ ws' = e.ws
          /\ readyState' = e.readyState
    /\ timers' = RemoveAt(timers, k)
    /\ UNCHANGED <<alive, outbox, reconnectWaitMs, inFlight, recentlySent,
                   lastPayloadById, calls, waiters, salt, wire, handed, savedAt,
                   errSince, env>>
    /\ UNCHANGED outsideRelay

\* the "hb" alarm, lines 10-14
HbAlarm ==
    /\ CanEnsureWS
    /\ LET e == ensureWS(ws, readyState, alive)
       IN /\ ws' = e.ws
          /\ readyState' = e.readyState
    /\ UNCHANGED <<alive, outbox, reconnectWaitMs, timers, inFlight, recentlySent,
                   lastPayloadById, calls, waiters, salt, wire, handed, savedAt,
                   errSince, env>>
    /\ UNCHANGED outsideRelay

(***************************************************************************)
(* The clock advances by d ms: by the begin_ack timeout while some timer   *)
(* is still ahead, by a whole dedup window (env.windows times) when none   *)
(* is.  Ages grow, timers run down, and Date.now() has a value not used as *)
(* a salt before.  An age is kept as 0, as BEGIN_ACK_TIMEOUT_MS for every  *)
(* age strictly inside the dedup window (the few timeouts of a run never   *)
(* add up to the window), as RECENT_WINDOW_MS exactly, or as AgeCap for    *)
(* every age beyond the window.                                            *)
(***************************************************************************)
AgeCap == RECENT_WINDOW_MS + BEGIN_ACK_TIMEOUT_MS
OlderBy(age, d) ==
    IF age = 0 THEN d
    ELSE IF age < RECENT_WINDOW_MS /\ d < RECENT_WINDOW_MS THEN age
    ELSE AgeCap
Older(m, d) == [k \in DOMAIN m |-> OlderBy(m[k], d)]

TimerAhead ==
    \/ \E c \in DOMAIN calls : calls[c].pc = "wait" /\ ~BeginAckDue(c)
    \/ \E k \in DOMAIN timers : timers[k] > 0

Tick(d) ==
    /\ \/ d = BEGIN_ACK_TIMEOUT_MS /\ TimerAhead /\ env' = env
       \/ /\ d = RECENT_WINDOW_MS
          /\ ~TimerAhead
          /\ env.windows > 0
          /\ env' = [env EXCEPT !.windows = @ - 1]
    /\ recentlySent' = Older(recentlySent, d)
    /\ savedAt' = Older(savedAt, d)
    /\ calls' = [c \in DOMAIN calls |->
                    IF calls[c].pc = "wait"
                        THEN [calls[c] EXCEPT
                                  !.waited = Min(@ + d, BEGIN_ACK_TIMEOUT_MS)]
                        ELSE calls[c]]
    /\ timers' = [k \in DOMAIN timers |-> Max(timers[k] - d, 0)]
    /\ salt' = [n |-> IF salt.used THEN salt.n + 1 ELSE salt.n, used |-> FALSE]
    /\ UNCHANGED <<ws, readyState, alive, outbox, reconnectWaitMs, inFlight,
                   lastPayloadById, waiters, wire, handed, errSince>>
    /\ UNCHANGED outsideRelay

RelayNext ==
    \/ \E url \in Urls, html \in {Empty, Short, Long}, docType \in DocTypes :
           Send(url, html, docType)
    \/ \E c \in DOMAIN calls : IdReady(c)
    \/ \E c \in DOMAIN calls : BeginAckTimeout(c)
    \/ \E s \in Sockets, m \in ServerMessages : Receive(s, m)
    \/ \E s \in Sockets : WsOpen(s)
    \/ \E s \in Sockets : WsClosing(s)
    \/ \E s \in Sockets, failed \in BOOLEAN : WsClosed(s, failed)
    \/ \E k \in DOMAIN timers : ReconnectTimer(k)
    \/ HbAlarm
    \/ \E d \in {BEGIN_ACK_TIMEOUT_MS, RECENT_WINDOW_MS} : Tick(d)

\* the steps of a relay whose connection, once open, stays up
SteadyNext ==
    \/ \E url \in Urls, html \in {Empty, Short, Long}, docType \in DocTypes :
           Send(url, html, docType)
    \/ \E c \in DOMAIN calls : IdReady(c)
    \/ \E c \in DOMAIN calls : BeginAckTimeout(c)
    \/ \E s \in Sockets, m \in ServerMessages : Receive(s, m)
    \/ \E s \in Sockets : WsOpen(s)
    \/ \E d \in {BEGIN_ACK_TIMEOUT_MS, RECENT_WINDOW_MS} : Tick(d)

(***************************************************************************)
(* Specifications of the relay.                                            *)
(*   SpecDedup: repeated sends of one document over a connection that      *)
(*              stays up, with every server reply, one automatic resend    *)
(*              and the dedup window.                                      *)
(*   SpecRetry: one send and the chain of automatic resends.               *)
(*   SpecWire : two documents of different ids over a connection that is   *)
(*              lost and re-established.                                   *)
(***************************************************************************)
DedupEnv ==
    [sends |-> MaxSends, retries |-> 1, sockets |-> 1, windows |-> MaxWindows,
     replies |-> ReplyTypes,
     requests |-> {[html |-> Empty, docType |-> "generic"],
                   [html |-> Long, docType |-> "generic"]}]
RetryEnv ==
    [sends |-> 1, retries |-> MaxRetries, sockets |-> 1, windows |-> 0,
     replies |-> {"begin_ack", "missing_chunks"},
     requests |-> {[html |-> Long, docType |-> "generic"]}]
WireEnv ==
    [sends |-> MaxSends, retries |-> 0, sockets |-> MaxSockets, windows |-> 0,
     replies |-> {"begin_ack", "ack", "saved"},
     requests |-> {[html |-> Long, docType |-> "generic"],
                   [html |-> Short, docType |-> "product"]}]

\* two versions of one page and a product page, over a connection that stays up
IdEnv ==
    [sends |-> MaxSends, retries |-> 0, sockets |-> 1, windows |-> 0,
     replies |-> {"begin_ack", "saved"},
     requests |-> {[html |-> Short, docType |-> "generic"],
                   [html |-> Long, docType |-> "generic"],
                   [html |-> Short, docType |-> "product"]}]

IdInit == RelayInit(IdEnv) /\ ChunkIdle /\ KeepersLoaded

\* what the Amazon content script sends: a deals page, a product page and a
\* product page without HTML, over a connection that stays up
ReplyEnv ==
    [sends |-> MaxSends, retries |-> 0, sockets |-> 1, windows |-> 0,
     replies |-> {"begin_ack", "saved"},
     requests |-> {[html |-> Short, docType |-> "generic"],
                   [html |-> Short, docType |-> "product"],
                   [html |-> Empty, docType |-> "product"]}]
ReplyInit == RelayInit(ReplyEnv) /\ ChunkIdle /\ KeepersLoaded
SpecReply == ReplyInit /\ [][SteadyNext]_vars

\* ---- the answer to the content script and what its callback makes of it
\* the message call c handles: the onMessage listener, background.js lines 243-261
msgType(c) ==
    IF calls[c].meta.docType = "product" THEN "PRODUCT_HTML" ELSE "PARSED_HTML"

\* sendResponse(res) with the result of sendHTMLAsStream: background.js lines
\* 224-238, 248, 258
sendResponse(c) ==
    IF calls[c].ret = "empty_html" THEN [ok |-> FALSE, id |-> FALSE]
    ELSE [ok |-> TRUE, id |-> TRUE]

\* faulty variant: the type of the message is not looked at
closesTabAnyType(type, lastError, resp) == ~lastError /\ resp.ok /\ resp.id

\* the callback of sendHtml sends CLOSE_CURRENT_TAB: src/addon/content.js lines 204-217
closesTab(type, lastError, resp) ==
    ~lastError /\ type = "PRODUCT_HTML" /\ resp.ok /\ resp.id

\* the content script has asked to close the tab upon the answer to call c; the
\* listener answers calls made for a message only, and only once they return
CloseAsked(c, lastError) ==
    /\ c \in UserCalls
    /\ calls[c].pc = "done"
    /\ closesTab(msgType(c), lastError, sendResponse(c))
SpecId == IdInit /\ [][SteadyNext]_vars

DedupInit == RelayInit(DedupEnv) /\ ChunkIdle /\ KeepersLoaded
RetryInit == RelayInit(RetryEnv) /\ ChunkIdle /\ KeepersLoaded
WireInit == RelayInit(WireEnv) /\ ChunkIdle /\ KeepersLoaded

SpecDedup == DedupInit /\ [][SteadyNext]_vars
SpecRetry == RetryInit /\ [][SteadyNext]_vars
SpecWire == WireInit /\ [][RelayNext]_vars

(***************************************************************************)
(* SpecWait: SpecWire's relay with a server that answers begin_ack or      *)
(* nothing, under the scheduling of the event loop: the clock advances,    *)
(* and a setTimeout callback that is due runs.                             *)
(***************************************************************************)
WaitEnv ==
    [sends |-> MaxSends, retries |-> 0, sockets |-> MaxSockets, windows |-> 0,
     replies |-> {"begin_ack"},
     requests |-> {[html |-> Long, docType |-> "generic"],
                   [html |-> Short, docType |-> "product"]}]

\* the calls a run of SpecWait can hold
WaitCalls == 1..(WaitEnv.sends + WaitEnv.retries)
\* the clock reaches the next pending timer
ClockStep == \E d \in {BEGIN_ACK_TIMEOUT_MS} : Tick(d)
\* some setTimeout callback of waitForBeginAck that is due runs; each runs once
TimerStep == \E c \in WaitCalls : BeginAckTimeout(c)

WaitInit == RelayInit(WaitEnv) /\ ChunkIdle /\ KeepersLoaded

SpecWait ==
    /\ WaitInit /\ [][RelayNext]_vars
    /\ WF_vars(ClockStep)
    /\ WF_vars(TimerStep)

(***************************************************************************)
(* SpecChunk: chunkUtf8Base64 applied to every string of up to MaxStrLen   *)
(* code units over "A", "é", "€" and the two halves of U+1F600, with every *)
(* bytesPerChunk up to MaxBpc.  The relay stays as loaded.                 *)
(***************************************************************************)
CodeUnits == {65, 233, 8364, 55357, 56832}
Strings == UNION {[1..n -> CodeUnits] : n \in 0..MaxStrLen}
IdleEnv ==
    [sends |-> 0, retries |-> 0, sockets |-> 1, windows |-> 0, replies |-> {},
     requests |-> {}]

ChunkInit ==
    /\ RelayInit(IdleEnv)
    /\ KeepersLoaded
    /\ cstr \in Strings
    /\ cbpc \in 1..MaxBpc
    /\ cres = NoResult

ChunkCall ==
    /\ cres = NoResult
    /\ cres' = chunkUtf8Base64(cstr, cbpc)
    /\ UNCHANGED <<cstr, cbpc>>
    /\ UNCHANGED outsideChunk

SpecChunk == ChunkInit /\ [][ChunkCall]_vars

(***************************************************************************)
(* The receiving side of a transfer, as the protocol describes it: each    *)
(* chunk's data is base64-decoded, and the chunks are concatenated in      *)
(* sequence-number order.                                                  *)
(***************************************************************************)
RECURSIVE atob(_)
atob(b64) ==
    IF Len(b64) < 4 THEN <<>>
    ELSE LET a == b64[1]
             b == b64[2]
             c == b64[3]
             d == b64[4]
         IN IF c = B64Pad THEN <<a * 4 + (b \div 16)>>
            ELSE IF d = B64Pad
                THEN <<a * 4 + (b \div 16), (b % 16) * 16 + (c \div 4)>>
            ELSE <<a * 4 + (b \div 16), (b % 16) * 16 + (c \div 4), (c % 4) * 64 + d>>
                     \o atob(SubSeq(b64, 5, Len(b64)))

RECURSIVE Reassemble(_)
Reassemble(chunks) ==
    IF chunks = <<>> THEN <<>>
    ELSE atob(Head(chunks)) \o Reassemble(Tail(chunks))

\* TextDecoder.decode: UTF-8 bytes -> UTF-16 code units (U+FFFD when cut short)
RECURSIVE TextDecode(_)
TextDecode(b) ==
    IF b = <<>> THEN <<>>
    ELSE LET h == Head(b)
             n == IF h < 128 THEN 1 ELSE IF h < 224 THEN 2 ELSE IF h < 240 THEN 3 ELSE 4
         IN IF Len(b) < n THEN <<65533>>
            ELSE LET cp == IF n = 1 THEN h
                           ELSE IF n = 2 THEN (h - 192) * 64 + (b[2] - 128)
                           ELSE IF n = 3
                               THEN (h - 224) * 4096 + (b[2] - 128) * 64 + (b[3] - 128)
                           ELSE (h - 240) * 262144 + (b[2] - 128) * 4096
                                    + (b[3] - 128) * 64 + (b[4] - 128)
                     units == IF cp < 65536 THEN <<cp>>
                              ELSE <<55296 + ((cp - 65536) \div 1024),
                                     56320 + ((cp - 65536) % 1024)>>
                 IN units \o TextDecode(SubSeq(b, n + 1, Len(b)))

\* s has no unpaired surrogate
RECURSIVE WellFormed(_)
WellFormed(s) ==
    IF s = <<>> THEN TRUE
    ELSE IF IsHighSurrogate(s[1])
        THEN Len(s) >= 2 /\ IsLowSurrogate(s[2]) /\ WellFormed(Tail(Tail(s)))
    ELSE ~IsLowSurrogate(s[1]) /\ WellFormed(Tail(s))

(***************************************************************************)
(* Part II.  The connection keeper of src/facebook/background.js.          *)
(* `socket` is the number of the newest WebSocket (0: null); a pending     *)
(* setTimeout handle is named by the socket whose onclose created it, and  *)
(* fbReconnectTimer is the handle held by `reconnectTimer` (0: null).      *)
(***************************************************************************)
Created(rs) == Cardinality({s \in DOMAIN rs : rs[s] # "NONE"})
Live(rs) == {s \in DOMAIN rs : rs[s] \in {"CONNECTING", "OPEN"}}

\* connectWebSocket(), lines 5-17
connectWebSocket(sk, rs, rt, tm) ==
    IF sk # 0 /\ rs[sk] \in {"OPEN", "CONNECTING"}
        THEN [socket |-> sk, readyState |-> rs, reconnectTimer |-> rt, timers |-> tm]
        ELSE LET n == Created(rs) + 1
             IN [socket |-> n,
                 readyState |-> [rs EXCEPT ![n] = "CONNECTING"],
                 reconnectTimer |-> 0,
                 timers |-> tm \ {rt}]

\* the call returns early, or the run may still create a socket
FbCanConnect ==
    \/ socket # 0 /\ fbReadyState[socket] \in {"OPEN", "CONNECTING"}
    \/ Created(fbReadyState) < MaxKeeperSockets

FbConnect(tm) ==
    /\ FbCanConnect
    /\ LET e == connectWebSocket(socket, fbReadyState, fbReconnectTimer, tm)
       IN /\ socket' = e.socket
          /\ fbReadyState' = e.readyState
          /\ fbReconnectTimer' = e.reconnectTimer
          /\ fbTimers' = e.timers

\* socket.onopen, lines 19-21
FbOpen(s) ==
    /\ fbReadyState[s] = "CONNECTING"
    /\ fbReadyState' = [fbReadyState EXCEPT ![s] = "OPEN"]
    /\ UNCHANGED <<socket, fbReconnectTimer, fbTimers>>
    /\ UNCHANGED outsideFb

\* the server starts the closing handshake: readyState becomes CLOSING, no event yet
FbClosing(s) ==
    /\ fbReadyState[s] = "OPEN"
    /\ fbReadyState' = [fbReadyState EXCEPT ![s] = "CLOSING"]
    /\ UNCHANGED <<socket, fbReconnectTimer, fbTimers>>
    /\ UNCHANGED outsideFb

\* the connection of s is closed; when it failed, socket.onerror (lines 61-65)
\* runs before socket.onclose (lines 55-59)
FbClosed(s, failed) ==
    /\ fbReadyState[s] \in {"CONNECTING", "OPEN", "CLOSING", "CLOSING_ERR"}
    /\ fbReadyState[s] \in {"CONNECTING", "CLOSING_ERR"} => failed
    /\ LET rs1 == [fbReadyState EXCEPT ![s] = "CLOSED"]
       IN fbReadyState' = IF failed THEN SocketClose(rs1, socket) ELSE rs1
    /\ fbReconnectTimer' = s
    /\ fbTimers' = fbTimers \cup {s}
    /\ UNCHANGED socket
    /\ UNCHANGED outsideFb

\* the setTimeout(connectWebSocket, 5000) of line 58 fires
FbTimer(h) ==
    /\ h \in fbTimers
    /\ FbConnect(fbTimers \ {h})
    /\ UNCHANGED outsideFb

\* the setInterval callback of lines 74-80
FbKeepAlive ==
    /\ IF socket # 0 /\ fbReadyState[socket] = "CLOSED"
           THEN FbConnect(fbTimers)
           ELSE UNCHANGED fbVars
    /\ UNCHANGED outsideFb

(***************************************************************************)
(* The connection keeper of src/whatsapp-addon/background.js, with the     *)
(* same naming of sockets and timer handles.                               *)
(***************************************************************************)
\* connectWS(), lines 270-276
connectWS(sk, rs, cn, tm, rt) ==
    IF cn \/ (sk # 0 /\ rs[sk] \in {"OPEN", "CONNECTING"})
        THEN [sock |-> sk, readyState |-> rs, connecting |-> cn, timers |-> tm]
        ELSE LET n == Created(rs) + 1
                 rs1 == IF sk # 0 THEN SocketClose(rs, sk) ELSE rs
             IN [sock |-> n,
                 readyState |-> [rs1 EXCEPT ![n] = "CONNECTING"],
                 connecting |-> TRUE,
                 timers |-> tm \ {rt}]

WaCanConnect ==
    \/ connecting
    \/ sock # 0 /\ waReadyState[sock] \in {"OPEN", "CONNECTING"}
    \/ Created(waReadyState) < MaxKeeperSockets

WaConnect(tm) ==
    /\ WaCanConnect
    /\ LET e == connectWS(sock, waReadyState, connecting, tm, waReconnectTimer)
       IN /\ sock' = e.sock
          /\ waReadyState' = e.readyState
          /\ connecting' = e.connecting
          /\ waTimers' = e.timers
    /\ UNCHANGED waReconnectTimer

\* the "open" listener, lines 278-285
WaOpen(s) ==
    /\ waReadyState[s] = "CONNECTING"
    /\ waReadyState' = [waReadyState EXCEPT ![s] = "OPEN"]
    /\ connecting' = FALSE
    /\ UNCHANGED <<sock, waReconnectTimer, waTimers>>
    /\ UNCHANGED outsideWa

WaClosing(s) ==
    /\ waReadyState[s] = "OPEN"
    /\ waReadyState' = [waReadyState EXCEPT ![s] = "CLOSING"]
    /\ UNCHANGED <<sock, connecting, waReconnectTimer, waTimers>>
    /\ UNCHANGED outsideWa

\* the connection of s is closed; when it failed, the "error" listener
\* (lines 312-316) runs before the "close" listener (lines 304-310)
WaClosed(s, failed) ==
    /\ waReadyState[s] \in {"CONNECTING", "OPEN", "CLOSING", "CLOSING_ERR"}
    /\ waReadyState[s] \in {"CONNECTING", "CLOSING_ERR"} => failed
    /\ LET rs1 == [waReadyState EXCEPT ![s] = "CLOSED"]
       IN waReadyState' = IF failed /\ sock # 0 THEN SocketClose(rs1, sock) ELSE rs1
    /\ connecting' = FALSE
    /\ sock' = 0
    /\ waReconnectTimer' = s
    /\ waTimers' = waTimers \cup {s}
    /\ UNCHANGED outsideWa

\* the setTimeout(connectWS, RECONNECT_MS) of line 309 fires
WaTimer(h) ==
    /\ h \in waTimers
    /\ WaConnect(waTimers \ {h})
    /\ UNCHANGED outsideWa

\* faulty variant of the alarm: a null `sock` is not taken as closed
WaAlarmClosedOnly ==
    /\ IF sock # 0 /\ waReadyState[sock] = "CLOSED"
           THEN WaConnect(waTimers)
           ELSE UNCHANGED waVars
    /\ UNCHANGED outsideWa

\* the "ws-ensure" alarm, lines 323-328
WaAlarm ==
    /\ IF sock = 0 \/ waReadyState[sock] = "CLOSED"
           THEN WaConnect(waTimers)
           ELSE UNCHANGED waVars
    /\ UNCHANGED outsideWa

\* chrome.runtime.onStartup / onInstalled, lines 320-321: delivered to a
\* service worker that has just been started, before any socket event
WaStartup ==
    /\ \A s \in KeeperSockets : waReadyState[s] \in {"NONE", "CONNECTING"}
    /\ WaConnect(waTimers)
    /\ UNCHANGED outsideWa

(***************************************************************************)
(* SpecBackoff: the relay's connection alone, over a run long enough for   *)
(* the reconnect delay to reach its cap (six closes without an open).      *)
(***************************************************************************)
BackoffEnv ==
    [sends |-> 0, retries |-> 0, sockets |-> MaxConnSockets, windows |-> 0,
     replies |-> {}, requests |-> {}]

BackoffInit == RelayInit(BackoffEnv) /\ ChunkIdle /\ KeepersLoaded

BackoffNext ==
    \/ \E s \in Sockets : WsOpen(s)
    \/ \E s \in Sockets : WsClosing(s)
    \/ \E s \in Sockets, failed \in BOOLEAN : WsClosed(s, failed)
    \/ \E k \in DOMAIN timers : ReconnectTimer(k)
    \/ HbAlarm
    \/ \E d \in {BEGIN_ACK_TIMEOUT_MS} : Tick(d)

SpecBackoff == BackoffInit /\ [][BackoffNext]_vars

(***************************************************************************)
(* SpecConn: the three connection keepers side by side.  The relay gets    *)
(* sends of an empty document (ensureWS runs, nothing is transmitted), its *)
(* alarm and its reconnect timers.                                         *)
(***************************************************************************)
ConnEnv ==
    [sends |-> 1, retries |-> 0, sockets |-> MaxKeeperSockets, windows |-> 0,
     replies |-> {},
     requests |-> {[html |-> Empty, docType |-> "generic"]}]

ConnInit == RelayInit(ConnEnv) /\ ChunkIdle /\ KeepersLoaded

ConnNext ==
    \/ \E url \in Urls, docType \in DocTypes : Send(url, Empty, docType)
    \/ \E s \in Sockets : WsOpen(s)
    \/ \E s \in Sockets : WsClosing(s)
    \/ \E s \in Sockets, failed \in BOOLEAN : WsClosed(s, failed)
    \/ \E k \in DOMAIN timers : ReconnectTimer(k)
    \/ HbAlarm
    \/ \E d \in {BEGIN_ACK_TIMEOUT_MS} : Tick(d)
    \/ \E s \in KeeperSockets : FbOpen(s)
    \/ \E s \in KeeperSockets : FbClosing(s)
    \/ \E s \in KeeperSockets, failed \in BOOLEAN : FbClosed(s, failed)
    \/ \E h \in KeeperSockets : FbTimer(h)
    \/ FbKeepAlive
    \/ \E s \in KeeperSockets : WaOpen(s)
    \/ \E s \in KeeperSockets : WaClosing(s)
    \/ \E s \in KeeperSockets, failed \in BOOLEAN : WaClosed(s, failed)
    \/ \E h \in KeeperSockets : WaTimer(h)
    \/ WaAlarm
    \/ WaStartup

SpecConn == ConnInit /\ [][ConnNext]_vars

(***************************************************************************)
(* SpecProbe: SpecConn with probe timers that keep firing: the "hb" alarm, *)
(* the keep-alive interval and the "ws-ensure" alarm are periodic, so a    *)
(* probe that stays due runs.  Nothing is assumed of the reconnect timers, *)
(* of the server or of the network.                                        *)
(***************************************************************************)
SpecProbe ==
    /\ ConnInit /\ [][ConnNext]_vars
    /\ WF_vars(HbAlarm)
    /\ WF_vars(FbKeepAlive)
    /\ WF_vars(WaAlarm)

(***************************************************************************)
(* Part III.  The button driver.  One polling tick is one invocation of    *)
(* handleButtonsRecursive (src/facebook/content.js, src/unnamed/part_000)  *)
(* or of checkAndClickPostButton (src/unnamed/part_001) up to the wait it  *)
(* ends with; between two ticks the run sleeps and the document may change *)
(* in any way.                                                             *)
(***************************************************************************)
\* Math.random(): the numerators k of the values k/RandRes, all in [0, 1)
MathRandom == 0..(RandRes - 1)

\* faulty variant of line 5: the range is not reduced by min
randomDelayUnscaled(min, max, k) == ((k * (max + 1)) \div RandRes) + min

\* content.js line 5: Math.floor(Math.random() * (max - min + 1)) + min
randomDelay(min, max, k) == ((k * (max - min + 1)) \div RandRes) + min

\* randomSleep(min, max), content.js lines 4-8: the delays setTimeout may be given
randomSleep(min, max) == {randomDelay(min, max, k) : k \in MathRandom}
\* setTimeout(checkAndClickPostButton, ms)
fixedSleep(ms) == {ms}

\* faulty variant of lines 107-116: Weiter is looked at before Posten
targetWeiterFirst(btn) ==
    IF btn["Weiter"] # "absent" THEN "Weiter"
    ELSE IF btn["Posten"] # "absent" THEN "Posten"
    ELSE IF btn["Jetzt nicht"] # "absent" THEN "Jetzt nicht"
    ELSE "none"

\* content.js lines 100-116: targetBtn / actionType
targetBtn(btn) ==
    IF btn["Posten"] # "absent" THEN "Posten"
    ELSE IF btn["Weiter"] # "absent" THEN "Weiter"
    ELSE IF btn["Jetzt nicht"] # "absent" THEN "Jetzt nicht"
    ELSE "none"

\* part_001 lines 105-108: postenBtn || weiterBtn
legacyTargetBtn(btn) ==
    IF btn["Posten"] # "absent" THEN "Posten"
    ELSE IF btn["Weiter"] # "absent" THEN "Weiter"
    ELSE "none"

\* faulty variant of the aria-disabled test: the flag is not looked at
isDisabledNever(btn, b) == FALSE

\* content.js lines 124-125: isDisabled && actionType !== "Jetzt nicht"
isDisabled(btn, b) == btn[b] = "disabled" /\ b # "Jetzt nicht"

\* part_001 lines 112-114
legacyIsDisabled(btn, b) == btn[b] = "disabled"

\* the wait a tick ends with when it does not click
RetryDelays(s) == IF s = "legacy" THEN fixedSleep(1000) ELSE randomSleep(1000, 2000)

\* the wait after a click, content.js lines 136-150, part_001 lines 129-134
ClickDelays(s, b) ==
    IF s = "legacy" THEN (IF b = "Weiter" THEN fixedSleep(2500) ELSE {0})
    ELSE IF b = "Jetzt nicht" THEN randomSleep(2000, 3000)
    ELSE IF b = "Weiter" THEN randomSleep(2000, 4000)
    ELSE randomSleep(6000, 9000)

\* faulty variant: the run goes on polling after every click
afterClickPoll(s, b) == "sleep"

\* where the run is after clicking b: content.js lines 136-171, part_001 lines 129-134
afterClick(s, b) ==
    IF b = "Posten" THEN (IF s = "legacy" THEN "done" ELSE "posted")
    ELSE "sleep"

\* where the run is after targetBtn.click() on b has raised.  content.js line 132
\* and part_001 line 127 have no try around the click: the exception leaves the
\* function, no caller catches it (content.js 23-28 and 92, part_001's timer) and
\* no further tick is scheduled.  part_000 lines 138-142 catch it and go on with
\* the lines after the click.
afterRaise(s, b) == IF s = "part_000" THEN afterClick(s, b) ELSE "failed"

\* the listener of content.js lines 23-28 calls startPostingProcess, which runs up
\* to its first await or to the return of line 51, and returns undefined without a
\* call of sendResponse: the port closes and the callback of
\* src/facebook/background.js lines 39-47 runs with no response
onMessageResponse(triggerFound) == "undefined"

\* the remote_post command: content.js lines 23-52 (startPostingProcess up to
\* waitForElement), part_001 lines 3-27
StartPosting(triggerFound) ==
    /\ dpc = "idle"
    /\ dpc' = IF triggerFound THEN "waitTextbox" ELSE "noTrigger"
    /\ response' = onMessageResponse(triggerFound)
    /\ UNCHANGED <<script, doc, lastTick, ticks, postenClicks>>
    /\ UNCHANGED outsideDriver

\* waitForElement('div[role="dialog"] div[role="textbox"]') resolves (content.js
\* lines 316-329); the image and the text are pasted, and the first tick is awaited
EditorFound ==
    /\ dpc = "waitTextbox"
    /\ doc.textbox
    /\ dpc' = "sleep"
    /\ UNCHANGED <<script, doc, response, lastTick, ticks, postenClicks>>
    /\ UNCHANGED outsideDriver

\* one tick, given the script's target and disabled test; targetBtn.click() either
\* returns or raises
PollingTick(b, blocked) ==
    /\ dpc = "sleep"
    /\ ticks' = Min(ticks + 1, MaxTicks)
    /\ IF b = "none" \/ blocked
          THEN /\ \E d \in RetryDelays(script) :
                      lastTick' = [seen |-> doc.btn, sel |-> b, act |-> "wait",
                                   delay |-> d]
               /\ UNCHANGED <<dpc, postenClicks>>
          ELSE \E raises \in BOOLEAN :
               LET to == IF raises THEN afterRaise(script, b) ELSE afterClick(script, b)
               IN /\ \E d \in IF to = "failed" THEN {0} ELSE ClickDelays(script, b) :
                         lastTick' = [seen |-> doc.btn, sel |-> b,
                                      act |-> IF raises THEN "raised" ELSE "click",
                                      delay |-> d]
                  /\ dpc' = to
                  /\ postenClicks' = IF b = "Posten" /\ ~raises
                                         THEN Min(postenClicks + 1, MaxPostenClicks)
                                         ELSE postenClicks
    /\ UNCHANGED <<script, doc, response>>
    /\ UNCHANGED outsideDriver

\* content.js lines 95-150 (part_000 lines 97-160)
handleButtonsRecursive ==
    /\ script \in {"content", "part_000"}
    /\ LET b == targetBtn(doc.btn)
       IN PollingTick(b, b # "none" /\ isDisabled(doc.btn, b))

\* part_001 lines 99-139
checkAndClickPostButton ==
    /\ script = "legacy"
    /\ LET b == legacyTargetBtn(doc.btn)
       IN PollingTick(b, b # "none" /\ legacyIsDisabled(doc.btn, b))

\* content.js lines 150-171: after the wait that follows the click on Posten, a
\* "Jetzt nicht" that is present is clicked, the comment is posted, the run ends
AfterPosten ==
    /\ dpc = "posted"
    /\ dpc' = "done"
    /\ UNCHANGED <<script, doc, response, lastTick, ticks, postenClicks>>
    /\ UNCHANGED outsideDriver

\* the page changes: the text box or one button appears, disappears, or has its
\* aria-disabled flag set or cleared
DocumentChanges ==
    /\ \/ doc' = [doc EXCEPT !.textbox = ~@]
       \/ \E b \in Buttons, st \in ButtonStates : doc' = [doc EXCEPT !.btn[b] = st]
    /\ doc' # doc
    /\ UNCHANGED <<script, dpc, response, lastTick, ticks, postenClicks>>
    /\ UNCHANGED outsideDriver

DriverInit ==
    /\ RelayInit(IdleEnv) /\ ChunkIdle /\ FbInit /\ WaInit /\ OthersLoaded
    /\ \E s \in {"content", "part_000", "legacy"} : DriverLoaded(s)

DriverNext ==
    \/ \E triggerFound \in BOOLEAN : StartPosting(triggerFound)
    \/ EditorFound
    \/ handleButtonsRecursive
    \/ checkAndClickPostButton
    \/ AfterPosten
    \/ DocumentChanges

SpecDriver == DriverInit /\ [][DriverNext]_vars

(***************************************************************************)
(* Part IV.  The two loops that can be asked to stop: runSequenceLoop of   *)
(* src/addon/popup.js and processLinksSequentially of                      *)
(* src/whatsapp-addon/content.js.  A step runs one of them from one await  *)
(* to the next.                                                            *)
(***************************************************************************)
\* $("run").onclick, popup.js lines 86-101, up to `await getActiveTab()`
RunClick ==
    /\ ppc \in {"idle", "ended", "error"}
    /\ loopAbort' = FALSE
    /\ ppc' = "starting"
    /\ cycle' = 0
    /\ UNCHANGED popupLate
    /\ UNCHANGED outsidePopup

\* the head of the while loop, lines 52-57: the next cycle starts with the await
\* of runRandomActions, or the loop ends (lines 81-82)
LoopHead ==
    IF loopAbort THEN ppc' = "ended" /\ UNCHANGED cycle
    ELSE ppc' = "actions" /\ cycle' = Min(cycle + 1, MaxCycles)

\* lines 94-101: the tab is found and injectable, content.js is injected and
\* runSequenceLoop is entered; or the throw of line 96 is caught (lines 103-106)
LoopStart(injectable) ==
    /\ ppc = "starting"
    /\ IF injectable THEN LoopHead ELSE ppc' = "error" /\ UNCHANGED cycle
    /\ UNCHANGED <<loopAbort, popupLate>>
    /\ UNCHANGED outsidePopup

\* the awaits of lines 57, 61, 65, 73, 74 and 78 resume; res is the answer to
\* RUN_SANITIZER (line 66 throws when it is not ok)
LoopResume(resOk) ==
    /\ ppc \in {"actions", "scroll", "sanitize", "tabget", "send", "sleep"}
    /\ CASE ppc = "actions" ->
              /\ ppc' = IF loopAbort THEN "ended" ELSE "scroll"
              /\ UNCHANGED <<cycle, popupLate>>
         [] ppc = "scroll" ->
              /\ ppc' = IF loopAbort THEN "ended" ELSE "sanitize"
              /\ UNCHANGED <<cycle, popupLate>>
         [] ppc = "sanitize" ->
              /\ ppc' = IF resOk THEN "tabget" ELSE "error"
              /\ UNCHANGED <<cycle, popupLate>>
         [] ppc = "tabget" ->
              /\ ppc' = "send"
              /\ popupLate' = (popupLate \/ loopAbort)
              /\ UNCHANGED cycle
         [] ppc = "send" ->
              /\ ppc' = "sleep"
              /\ UNCHANGED <<cycle, popupLate>>
         [] ppc = "sleep" ->
              /\ LoopHead
              /\ UNCHANGED popupLate
    /\ UNCHANGED loopAbort
    /\ UNCHANGED outsidePopup

\* the popup is closed: the unload listener of line 137 sets loopAbort, and the
\* page with its pending promises is discarded
Unload ==
    /\ ppc # "gone"
    /\ loopAbort' = TRUE
    /\ ppc' = "gone"
    /\ UNCHANGED <<cycle, popupLate>>
    /\ UNCHANGED outsidePopup

\* collectShopLinks(), content.js lines 23-34: three links pass the blacklist
NumLinks == 3

\* the head of the for loop of processLinksSequentially, lines 48-55, for the
\* invocation r at index i: the link is opened (OPEN_IN_INCOGNITO is sent), or
\* the loop is left and lines 71-72 run
ForHead(r, i) ==
    IF i < NumLinks /\ isRunning
        THEN /\ runs' = [runs EXCEPT ![r] = [@ EXCEPT !.i = i, !.pc = "opening",
                                                      !.late = @ \/ runs[r].stopped]]
             /\ UNCHANGED isRunning
        ELSE /\ runs' = [runs EXCEPT ![r] = [@ EXCEPT !.i = i, !.pc = "done"]]
             /\ isRunning' = FALSE

\* RUN_LINK_OPENER, lines 133-136: startRun (lines 78-82) and the first pass of
\* processLinksSequentially up to its first await (lines 39-55)
startRun(r) ==
    /\ runs[r].pc = "none"
    /\ \A q \in OpenerRuns : q < r => runs[q].pc # "none"
    /\ ~isRunning
    /\ runs' = [runs EXCEPT ![r] = [i |-> 0, pc |-> "opening", stopped |-> FALSE,
                                     late |-> FALSE]]
    /\ isRunning' = TRUE
    /\ UNCHANGED outsideOpener

\* the callback of chrome.runtime.sendMessage runs (lines 56-63) and the sleep of
\* line 68 begins
OpenAnswered(r) ==
    /\ runs[r].pc = "opening"
    /\ runs' = [runs EXCEPT ![r].pc = "sleep"]
    /\ UNCHANGED isRunning
    /\ UNCHANGED outsideOpener

\* sleep(OPEN_DELAY_MS) of line 68 is over: i++ and the head of the loop
SleepOver(r) ==
    /\ runs[r].pc = "sleep"
    /\ ForHead(r, runs[r].i + 1)
    /\ UNCHANGED outsideOpener

\* STOP_LINK_OPENER, lines 139-143
StopLinkOpener ==
    /\ isRunning' = FALSE
    /\ runs' = [r \in OpenerRuns |->
                   IF runs[r].pc \in {"opening", "sleep"}
                       THEN [runs[r] EXCEPT !.stopped = TRUE] ELSE runs[r]]
    /\ <<isRunning', runs'>> # <<isRunning, runs>>
    /\ UNCHANGED outsideOpener

AbortInit ==
    /\ RelayInit(IdleEnv) /\ ChunkIdle /\ FbInit /\ WaInit /\ DriverLoaded("content")
    /\ OthersLoaded

(***************************************************************************)
(* Part V.  The deal scheduler of src/unnamed/part_004 (part_005 is the    *)
(* same without tab tracking and socket, part_006 the same with the click  *)
(* made by executeScript).  A step runs one handler from one await to the  *)
(* next.  The timers (scan every 3 s, click every 10 s, close after 1 s)   *)
(* fire at any time; only the age of lastReloadTime is kept as time.       *)
(***************************************************************************)
\* loadProcessedIds resumes: lines 203-205
LoadDone ==
    /\ loading.pending
    /\ processed' = processed \cup loading.ids
    /\ loading' = [pending |-> FALSE, ids |-> {}]
    /\ UNCHANGED <<autoOpen, lastReloadTime, queue, reloadChecks, opens, stored,
                   dispatched, sinceReload, reloads, lastCheck, restarts>>
    /\ UNCHANGED tabVars
    /\ UNCHANGED outsideDeal

\* lines 183-191: the loop over response.deals
RECURSIVE ScanPush(_, _, _)
ScanPush(q, proc, deals) ==
    IF deals = <<>> THEN q
    ELSE LET dealId == Head(deals)
             known == \E k \in DOMAIN q : q[k] = dealId
         IN ScanPush(IF dealId \in proc \/ known THEN q ELSE Append(q, dealId),
                     proc, Tail(deals))

\* what a page can answer to SCAN_DEALS: a list of deal ids
DealLists == UNION {[1..n -> DealIds] : n \in 0..MaxDeals}

\* scanActiveTabOnce, lines 171-197: the part after its last await; the two
\* awaits before it read and write nothing of the module state
scanActiveTabOnce(deals) ==
    /\ queue' = ScanPush(queue, processed, deals)
    /\ queue' # queue
    /\ UNCHANGED <<autoOpen, lastReloadTime, processed, loading, reloadChecks, opens,
                   stored, dispatched, sinceReload, reloads, lastCheck, restarts>>
    /\ UNCHANGED tabVars
    /\ UNCHANGED outsideDeal

\* saveProcessedIds, lines 209-211: the storage gets the ids of the set in memory
saveProcessedIds(st, proc) == proc

\* openNextInQueue, lines 133-142: up to the await of the tab query
openNextInQueue ==
    /\ queue # <<>>
    /\ autoOpen
    /\ LET item == Head(queue)
       IN /\ queue' = Tail(queue)
          /\ processed' = processed \cup {item}
          /\ stored' = saveProcessedIds(stored, processed \cup {item})
          /\ opens' = [opens EXCEPT ![item] = "query"]
          /\ dispatched' = [dispatched EXCEPT ![item] = Min(@ + 1, MaxDispatch)]
    /\ UNCHANGED <<autoOpen, lastReloadTime, loading, reloadChecks, sinceReload,
                   reloads, lastCheck, restarts>>
    /\ UNCHANGED tabVars
    /\ UNCHANGED outsideDeal

\* line 257: Date.now() - lastReloadTime < RELOAD_EVERY_MS
TooEarly(age) == age < RELOAD_EVERY_MS

\* checkForReload, lines 256-262: up to the await of the tab query, or the return
\* of line 258
checkForReload ==
    /\ IF TooEarly(lastReloadTime)
          THEN lastCheck' = "early" /\ UNCHANGED reloadChecks
          ELSE /\ reloadChecks < MaxChecks
               /\ reloadChecks' = reloadChecks + 1
               /\ lastCheck' = "query"
    /\ lastCheck' # lastCheck \/ reloadChecks' # reloadChecks
    /\ UNCHANGED <<autoOpen, lastReloadTime, processed, queue, loading, opens,
                   stored, dispatched, sinceReload, reloads, restarts>>
    /\ UNCHANGED tabVars
    /\ UNCHANGED outsideDeal

\* faulty variant of line 273: the queue is kept
reloadedQueueKept(q) == q

\* line 273: queue.length = 0
reloadedQueue(q) == <<>>

\* checkForReload resumes, lines 262-274: shouldReload says whether the active
\* tab has an id and a url that matches RELOAD_PATTERNS
checkForReloadResumes(shouldReload) ==
    /\ reloadChecks > 0
    /\ reloadChecks' = reloadChecks - 1
    /\ IF shouldReload
          THEN /\ lastReloadTime' = 0
               /\ queue' = reloadedQueue(queue)
               /\ sinceReload' = 0
               /\ reloads' = Min(reloads + 1, MaxReloads)
               /\ lastCheck' = "reloaded"
          ELSE /\ lastCheck' = "noReload"
               /\ UNCHANGED <<lastReloadTime, queue, sinceReload, reloads>>
    /\ UNCHANGED <<autoOpen, processed, loading, opens, stored, dispatched, restarts>>
    /\ UNCHANGED tabVars
    /\ UNCHANGED outsideDeal

\* TOGGLE_AUTO_OPEN, lines 222-226
ToggleAutoOpen(enabled) ==
    /\ autoOpen' = enabled
    /\ autoOpen' # autoOpen
    /\ UNCHANGED <<lastReloadTime, processed, queue, loading, reloadChecks, opens,
                   stored, dispatched, sinceReload, reloads, lastCheck, restarts>>
    /\ UNCHANGED tabVars
    /\ UNCHANGED outsideDeal

\* time passes: d ms
ReloadAge(age, d) ==
    IF age = 0 THEN d
    ELSE IF age < RELOAD_EVERY_MS /\ d < RELOAD_EVERY_MS THEN age
    ELSE LongAgo

DealTick(d) ==
    /\ lastReloadTime' = ReloadAge(lastReloadTime, d)
    /\ sinceReload' = ReloadAge(sinceReload, d)
    /\ <<lastReloadTime', sinceReload'>> # <<lastReloadTime, sinceReload>>
    /\ UNCHANGED <<autoOpen, processed, queue, loading, reloadChecks, opens, stored,
                   dispatched, reloads, lastCheck, restarts>>
    /\ UNCHANGED tabVars
    /\ UNCHANGED outsideDeal

AbortNext ==
    \/ RunClick
    \/ \E injectable \in BOOLEAN : LoopStart(injectable)
    \/ \E resOk \in BOOLEAN : LoopResume(resOk)
    \/ Unload
    \/ \E r \in OpenerRuns : startRun(r)
    \/ \E r \in OpenerRuns : OpenAnswered(r)
    \/ \E r \in OpenerRuns : SleepOver(r)
    \/ StopLinkOpener

SpecAbort == AbortInit /\ [][AbortNext]_vars

\* tab ids not used yet
TabsLeft == Cardinality({x \in TabIds : tabs[x].state = "none"})

\* openNextInQueue resumes from the tab query, lines 142-155: without an active
\* tab it returns; else it sets the flag and sends CLICK_DEAL.  opensTab says
\* whether the page will open a tab for it.
openQueried(id, tabOk, opensTab) ==
    /\ opens[id] = "query"
    /\ opensTab => TabsLeft > dealTabsDue
    /\ IF tabOk
          THEN /\ isDealClicking' = TRUE
               /\ opens' = [opens EXCEPT ![id] = IF opensTab THEN "clickTab"
                                                            ELSE "clickNoTab"]
               /\ dealTabsDue' = IF opensTab THEN dealTabsDue + 1 ELSE dealTabsDue
          ELSE /\ opens' = [opens EXCEPT ![id] = "none"]
               /\ UNCHANGED <<isDealClicking, dealTabsDue>>
    /\ UNCHANGED <<autoOpen, lastReloadTime, processed, queue, loading, reloadChecks,
                   stored, dispatched, sinceReload, reloads, lastCheck, restarts>>
    /\ UNCHANGED <<expectedTabId, websocket, onUpdated, closeTimers, tabs, urlSent>>
    /\ UNCHANGED outsideDeal

\* openNextInQueue resumes from sendMessage, lines 157-166: clicked is
\* response?.clicked, FALSE also when the await threw
openClicked(id, clicked) ==
    /\ opens[id] \in {"clickTab", "clickNoTab"}
    /\ opens' = [opens EXCEPT ![id] = "none"]
    /\ isDealClicking' = IF clicked THEN isDealClicking ELSE FALSE
    /\ UNCHANGED <<autoOpen, lastReloadTime, processed, queue, loading, reloadChecks,
                   stored, dispatched, sinceReload, reloads, lastCheck, restarts>>
    /\ UNCHANGED <<expectedTabId, websocket, onUpdated, closeTimers, tabs, dealTabsDue,
                   urlSent>>
    /\ UNCHANGED outsideDeal

\* chrome.tabs.onCreated for a new tab x, opened by a clicked deal button or by
\* anything else: handleNewTab, lines 84-97
handleNewTab(x, by) ==
    /\ tabs[x].state = "none"
    /\ \A y \in TabIds : y < x => tabs[y].state # "none"
    /\ by = "deal" => dealTabsDue > 0
    /\ dealTabsDue' = IF by = "deal" THEN dealTabsDue - 1 ELSE dealTabsDue
    /\ tabs' = [tabs EXCEPT ![x] = [state |-> "loading", by |-> by]]
    /\ IF isDealClicking
          THEN isDealClicking' = FALSE /\ expectedTabId' = x /\ onUpdated' = TRUE
          ELSE UNCHANGED <<isDealClicking, expectedTabId, onUpdated>>
    /\ UNCHANGED <<websocket, closeTimers, urlSent>>
    /\ UNCHANGED schedVars
    /\ UNCHANGED outsideDeal

\* sendUrlViaWebSocket, lines 62-74: the tabs whose url has been written
sendUrlViaWebSocket(sent, x) == IF websocket = "OPEN" THEN sent \cup {x} ELSE sent

\* chrome.tabs.onUpdated with status "complete" for tab x: logFinalUrlOnce, lines
\* 99-117, when it is registered
logFinalUrlOnce(x) ==
    /\ tabs[x].state = "loading"
    /\ tabs' = [tabs EXCEPT ![x].state = "complete"]
    /\ IF onUpdated /\ x = expectedTabId
          THEN /\ urlSent' = sendUrlViaWebSocket(urlSent, x)
               /\ closeTimers' = closeTimers \cup {x}
               /\ onUpdated' = FALSE
               /\ expectedTabId' = 0
          ELSE UNCHANGED <<urlSent, closeTimers, onUpdated, expectedTabId>>
    /\ UNCHANGED <<isDealClicking, websocket, dealTabsDue>>
    /\ UNCHANGED schedVars
    /\ UNCHANGED outsideDeal

\* the timer of lines 107-111 fires: chrome.tabs.remove(tabId)
CloseTimer(x) ==
    /\ x \in closeTimers
    /\ closeTimers' = closeTimers \ {x}
    /\ tabs' = [tabs EXCEPT ![x].state = "closed"]
    /\ UNCHANGED <<isDealClicking, expectedTabId, websocket, onUpdated, dealTabsDue,
                   urlSent>>
    /\ UNCHANGED schedVars
    /\ UNCHANGED outsideDeal

\* the socket of connectWebSocket (lines 38-60): onopen; onclose, which sets
\* websocket = null and a timer; the timer, which connects again
DealWs(from, to) ==
    /\ <<from, to>> \in {<<"CONNECTING", "OPEN">>, <<"CONNECTING", "NULL">>,
                         <<"OPEN", "NULL">>, <<"NULL", "CONNECTING">>}
    /\ websocket = from
    /\ websocket' = to
    /\ UNCHANGED <<isDealClicking, expectedTabId, onUpdated, closeTimers, tabs,
                   dealTabsDue, urlSent>>
    /\ UNCHANGED schedVars
    /\ UNCHANGED outsideDeal

\* the service worker is stopped and started again: the module is loaded anew
\* (lines 12-26), start() runs (lines 123-131) and loadProcessedIds asks for the
\* ids in the storage; what was suspended or scheduled is gone
Restart ==
    /\ restarts < MaxRestarts
    /\ restarts' = restarts + 1
    /\ autoOpen' = TRUE
    /\ lastReloadTime' = LongAgo
    /\ processed' = {}
    /\ queue' = <<>>
    /\ isDealClicking' = FALSE
    /\ expectedTabId' = 0
    /\ websocket' = "CONNECTING"
    /\ onUpdated' = FALSE
    /\ closeTimers' = {}
    /\ loading' = [pending |-> TRUE, ids |-> stored]
    /\ reloadChecks' = 0
    /\ opens' = [d \in DealIds |-> "none"]
    /\ lastCheck' = "none"
    /\ UNCHANGED <<stored, tabs, dealTabsDue, dispatched, sinceReload, reloads, urlSent>>
    /\ UNCHANGED outsideDeal

DealInit ==
    /\ RelayInit(IdleEnv) /\ ChunkIdle /\ FbInit /\ WaInit /\ DriverLoaded("content")
    /\ OthersLoaded

\* the scheduler proper: storage, scans, dequeues, reloads, restarts
SchedNext ==
    \/ LoadDone
    \/ \E deals \in DealLists : scanActiveTabOnce(deals)
    \/ openNextInQueue
    \/ checkForReload
    \/ \E shouldReload \in BOOLEAN : checkForReloadResumes(shouldReload)
    \/ \E enabled \in BOOLEAN : ToggleAutoOpen(enabled)
    \/ \E d \in {SCAN_EVERY_MS, RELOAD_EVERY_MS} : DealTick(d)
    \/ Restart

SpecSched == DealInit /\ [][SchedNext]_vars

\* the clicks and the tabs they open, next to tabs opened by others, with a socket
\* that comes and goes
TabsNext ==
    \/ LoadDone
    \/ \E deals \in DealLists : scanActiveTabOnce(deals)
    \/ openNextInQueue
    \/ \E id \in DealIds, tabOk, opensTab \in BOOLEAN : openQueried(id, tabOk, opensTab)
    \/ \E id \in DealIds, clicked \in BOOLEAN : openClicked(id, clicked)
    \/ \E x \in TabIds, by \in {"deal", "other"} : handleNewTab(x, by)
    \/ \E x \in TabIds : logFinalUrlOnce(x)
    \/ \E x \in TabIds : CloseTimer(x)
    \/ \E from, to \in {"CONNECTING", "OPEN", "NULL"} : DealWs(from, to)

SpecTabs == DealInit /\ [][TabsNext]_vars

(***************************************************************************)
(* SpecSleep: randomSleep called MaxDraws times with one pair of integers  *)
(* min <= max, each call with its own Math.random().                       *)
(***************************************************************************)
SleepInit ==
    /\ RelayInit(IdleEnv) /\ ChunkIdle /\ FbInit /\ WaInit /\ DriverLoaded("content")
    /\ PopupLoaded /\ OpenerLoaded /\ SchedulerLoaded /\ AmazonLoaded /\ PollsIdle
    /\ sleepMin \in 0..MaxSleepMs
    /\ sleepMax \in sleepMin..MaxSleepMs
    /\ sleepDelays = <<>>

\* await randomSleep(min, max): content.js lines 4-8
RandomSleep ==
    /\ Len(sleepDelays) < MaxDraws
    /\ \E d \in randomSleep(sleepMin, sleepMax) : sleepDelays' = Append(sleepDelays, d)
    /\ UNCHANGED <<sleepMin, sleepMax>>
    /\ UNCHANGED outsideSleep

SpecSleep == SleepInit /\ [][RandomSleep]_vars

(***************************************************************************)
(* Part VI.  The Amazon content script of src/addon/content.js in one tab. *)
(* A step runs one safeRun invocation from one await to the next, or one   *)
(* of the events that call safeRun.  Whether the SiteStripe button and the *)
(* affiliate link turn up before their waits time out is the page's        *)
(* choice.  Of time only the ages of lastRunAt and of the sends are kept,   *)
(* and of an age only whether it has reached MIN_RUN_INTERVAL_MS.          *)
(***************************************************************************)
\* runPipeline (lines 168-194) loads no module: its awaits are on promises
\* that are resolved already, so a round in it sends before any timer or
\* event of the page is handled
MicrotasksDone == \A run \in BagToSet(safeRuns) : run.pc # "pipeline"

keepPage == UNCHANGED <<lastRunAt, lastRunUrl, triggerConsumedForUrl, clickedOnceForUrl,
                        linkReadyForUrl, lastHtml, stripeClicks, sentAge>>

\* setInterval(() => { if (!document.hidden) safeRun("interval") }): lines 307-309;
\* when the timer fires against the other events is left open, and hidden is
\* what document.hidden is at that time
Interval(hidden) ==
    /\ MicrotasksDone
    /\ ~hidden => Runnable(location)
    /\ safeRuns' = IF ~hidden THEN safeRun(location) ELSE safeRuns
    /\ UNCHANGED location
    /\ keepPage
    /\ UNCHANGED outsideAmazon

\* history.pushState / replaceState / popstate to url: lines 312-326
HistoryChange(url) ==
    /\ MicrotasksDone
    /\ Runnable(url)
    /\ location' = url
    /\ safeRuns' = safeRun(url)
    /\ keepPage
    /\ UNCHANGED outsideAmazon

\* the MutationObserver callback: lines 329-332
Mutation ==
    /\ MicrotasksDone
    /\ isAmazonTargetPage(location) \/ hasOpenerTrigger(location)
    /\ location # lastRunUrl
    /\ Runnable(location)
    /\ safeRuns' = safeRun(location)
    /\ UNCHANGED location
    /\ keepPage
    /\ UNCHANGED outsideAmazon

\* visibilitychange: lines 337-339
VisibilityChange(hidden) ==
    /\ MicrotasksDone
    /\ ~hidden => Runnable(location)
    /\ safeRuns' = IF ~hidden THEN safeRun(location) ELSE safeRuns
    /\ UNCHANGED location
    /\ keepPage
    /\ UNCHANGED outsideAmazon

\* ensureStripeLinkReadyForCurrentProduct up to its first await, lines 136-144:
\* where the invocation is suspended next
ensureStripeLinkReadyForCurrentProduct(run) ==
    LET urlKey == location
    IN  IF urlKey \in linkReadyForUrl
        THEN [run EXCEPT !.pc = "pipeline", !.key = urlKey]
        ELSE IF urlKey \notin clickedOnceForUrl
             THEN [run EXCEPT !.pc = "button", !.key = urlKey]
             ELSE [run EXCEPT !.pc = "link", !.key = urlKey]

\* safeRun resumes after sleep(500) and requestIdleCallback: lines 241-286
Settled(run) ==
    /\ MicrotasksDone
    /\ BagIn(run, safeRuns)
    /\ run.pc = "sleep"
    /\ LET gated == IF isAmazonProductPath(location)
                    THEN ensureStripeLinkReadyForCurrentProduct(run)
                    ELSE [run EXCEPT !.pc = "pipeline"]
       IN  safeRuns' = Resumed(run,
                IF hasOpenerTrigger(run.href) /\ run.href \in triggerConsumedForUrl
                THEN NoSafeRun
                ELSE gated)
    /\ UNCHANGED location
    /\ keepPage
    /\ UNCHANGED outsideAmazon

\* waitForStripeButton returns the button or, timed out, null: lines 144-152
ButtonWaited(run, found) ==
    /\ MicrotasksDone
    /\ BagIn(run, safeRuns)
    /\ run.pc = "button"
    /\ clickedOnceForUrl' = IF found THEN clickedOnceForUrl \cup {run.key}
                            ELSE clickedOnceForUrl
    /\ stripeClicks' = IF found /\ stripeClicks[run.key] < MaxStripeClicks
                       THEN [stripeClicks EXCEPT ![run.key] = @ + 1]
                       ELSE stripeClicks
    /\ safeRuns' = Resumed(run, [run EXCEPT !.pc = "link"])
    /\ UNCHANGED <<location, lastRunAt, lastRunUrl, triggerConsumedForUrl,
                   linkReadyForUrl, lastHtml, sentAge>>
    /\ UNCHANGED outsideAmazon

\* faulty variant: the round goes on whatever the wait returned
gateIgnored(run, ok) == [run EXCEPT !.pc = "pipeline"]

\* safeRun after `const ok = await ensureStripeLinkReadyForCurrentProduct()`:
\* lines 255-261 and 275-279
gate(run, ok) == IF ok THEN [run EXCEPT !.pc = "pipeline"] ELSE NoSafeRun

\* waitForAffiliateLink returns the link or, timed out, null: lines 155-163,
\* and safeRun goes on or gives the round up: lines 255-263, 275-286
LinkWaited(run, ready) ==
    /\ MicrotasksDone
    /\ BagIn(run, safeRuns)
    /\ run.pc = "link"
    /\ linkReadyForUrl' = IF ready THEN linkReadyForUrl \cup {run.key}
                          ELSE linkReadyForUrl
    /\ safeRuns' = Resumed(run, gate(run, ready))
    /\ UNCHANGED <<location, lastRunAt, lastRunUrl, triggerConsumedForUrl,
                   clickedOnceForUrl, lastHtml, stripeClicks, sentAge>>
    /\ UNCHANGED outsideAmazon

\* sendHtml(type, href, html) up to chrome.runtime.sendMessage: lines 202-204
sendHtml(type, href) == [type |-> type, url |-> href]

\* runPipeline has resolved; the HTML is sent and the round recorded:
\* lines 263-269 with the opener trigger, lines 286-295 without
PipelineDone(run) ==
    /\ BagIn(run, safeRuns)
    /\ run.pc = "pipeline"
    /\ LET href == run.href
           messageType == IF hasOpenerTrigger(href) \/ isAmazonProductPath(location)
                          THEN "PRODUCT_HTML" ELSE "PARSED_HTML"
       IN  /\ lastHtml' = sendHtml(messageType, href)
           /\ sentAge' = [sentAge EXCEPT ![href] = 0]
           /\ triggerConsumedForUrl' = IF hasOpenerTrigger(href)
                                       THEN triggerConsumedForUrl \cup {href}
                                       ELSE triggerConsumedForUrl
           /\ lastRunAt' = 0
           /\ lastRunUrl' = href
    /\ safeRuns' = Resumed(run, NoSafeRun)
    /\ UNCHANGED <<location, clickedOnceForUrl, linkReadyForUrl, stripeClicks>>
    /\ UNCHANGED outsideAmazon

\* d ms pass: what Date.now() - lastRunAt becomes
RunAge(age, d) ==
    IF age = 0 THEN d
    ELSE IF age < MIN_RUN_INTERVAL_MS /\ d < MIN_RUN_INTERVAL_MS THEN age
    ELSE RunLongAgo

AmazonTick(d) ==
    /\ MicrotasksDone
    /\ lastRunAt' = RunAge(lastRunAt, d)
    /\ sentAge' = [u \in AmazonUrls |-> RunAge(sentAge[u], d)]
    /\ <<lastRunAt', sentAge'>> # <<lastRunAt, sentAge>>
    /\ UNCHANGED <<location, lastRunUrl, triggerConsumedForUrl,
                   clickedOnceForUrl, linkReadyForUrl, safeRuns, lastHtml,
                   stripeClicks>>
    /\ UNCHANGED outsideAmazon

\* the content script is injected into a page of the tab
AmazonInit ==
    /\ RelayInit(IdleEnv) /\ ChunkIdle /\ FbInit /\ WaInit /\ DriverLoaded("content")
    /\ SleepIdle /\ PopupLoaded /\ OpenerLoaded /\ SchedulerLoaded /\ PollsIdle
    /\ \E url \in AmazonUrls : PageLoaded(url)

AmazonNext ==
    \/ \E hidden \in BOOLEAN : Interval(hidden)
    \/ \E url \in AmazonUrls : HistoryChange(url)
    \/ Mutation
    \/ \E hidden \in BOOLEAN : VisibilityChange(hidden)
    \/ \E run \in SafeRuns : Settled(run)
    \/ \E run \in SafeRuns, found \in BOOLEAN : ButtonWaited(run, found)
    \/ \E run \in SafeRuns, ready \in BOOLEAN : LinkWaited(run, ready)
    \/ \E run \in SafeRuns : PipelineDone(run)
    \/ AmazonTick(MIN_RUN_INTERVAL_MS)

SpecAmazon == AmazonInit /\ [][AmazonNext]_vars

(***************************************************************************)
(* Part VII.  The polling waits: waitForStripeButton and                   *)
(* waitForAffiliateLink of src/addon/content.js, clickSendRobust of        *)
(* src/whatsapp-addon/background.js and scanDealsWithRetry of              *)
(* src/unnamed/part_003.  A step runs one call from one timer to the next. *)
(* Whether the condition holds when it is looked at is the page's choice.  *)
(* A timer fires when its delay has passed, or one delay later.            *)
(***************************************************************************)
PollFns == {"waitForStripeButton", "waitForAffiliateLink", "clickSendRobust",
            "scanDealsWithRetry"}

\* the default arguments: content.js lines 100 and 116, background.js lines 63
\* and 91, part_003 lines 331-332
timeoutMs(fn) ==
    CASE fn = "waitForStripeButton" -> STRIPE_BUTTON_TIMEOUT_MS
      [] fn = "waitForAffiliateLink" -> AFFILIATE_LINK_TIMEOUT_MS
      [] fn = "clickSendRobust" -> CLICK_SEND_DEADLINE_MS
      [] OTHER -> 0
intervalMs(fn) ==
    CASE fn = "waitForStripeButton" -> STRIPE_BUTTON_INTERVAL_MS
      [] fn = "waitForAffiliateLink" -> AFFILIATE_LINK_INTERVAL_MS
      [] fn = "clickSendRobust" -> CLICK_SEND_RETRY_MS
      [] OTHER -> retryDelayMs

\* the largest Date.now() - start kept apart
ElapsedCap(fn) == timeoutMs(fn) + (2 * intervalMs(fn))

\* faulty variant: the loop test of a wait that never gives up
timedOutNever(fn, e) == FALSE

\* the call gives up: `Date.now() - start < timeoutMs` is false (content.js lines
\* 102, 118), `Date.now() > deadline` is true (background.js line 79)
timedOut(fn, e) ==
    IF fn = "clickSendRobust" THEN e > timeoutMs(fn) ELSE e >= timeoutMs(fn)

\* one of the four functions is called
PollsInit ==
    /\ RelayInit(IdleEnv) /\ ChunkIdle /\ FbInit /\ WaInit /\ DriverLoaded("content")
    /\ SleepIdle /\ PopupLoaded /\ OpenerLoaded /\ SchedulerLoaded /\ AmazonLoaded
    /\ waitFn \in PollFns
    /\ wpc = "test"
    /\ elapsed = 0
    /\ polls = 0
    /\ wres = "none"

PollReturns(res) == wpc' = "returned" /\ wres' = res
PollSleeps == wpc' = "timer" /\ wres' = wres

\* waitForStripeButton, waitForAffiliateLink from the loop test to the await
\* on sleep(intervalMs) or the return: content.js lines 102-107, 118-129
WaitForTest(found) ==
    /\ waitFn \in {"waitForStripeButton", "waitForAffiliateLink"}
    /\ wpc = "test"
    /\ IF timedOut(waitFn, elapsed)
       THEN PollReturns("null") /\ polls' = polls
       ELSE /\ polls' = Min(MaxPolls, polls + 1)
            /\ IF found THEN PollReturns("found") ELSE PollSleeps
    /\ UNCHANGED <<waitFn, elapsed>>
    /\ UNCHANGED outsidePolls

\* tryOnce of clickSendRobust: background.js lines 65-92.  ok: an enabled send
\* button was there and was clicked; editable: the active element is the editor
tryOnce(ok, editable) ==
    /\ waitFn = "clickSendRobust"
    /\ wpc = "test"
    /\ polls' = Min(MaxPolls, polls + 1)
    /\ IF ok THEN PollReturns("clicked")
       ELSE IF timedOut(waitFn, elapsed)
            THEN PollReturns(IF editable THEN "enter" ELSE "false")
            ELSE PollSleeps
    /\ UNCHANGED <<waitFn, elapsed>>
    /\ UNCHANGED outsidePolls

\* scanDealsWithRetry from one scanDealsOnce to the await on the timer or the
\* return: part_003 lines 496-503; polls is i + 1 after the scan of round i
scanDealsWithRetry(found) ==
    /\ waitFn = "scanDealsWithRetry"
    /\ wpc = "test"
    /\ polls' = Min(MaxPolls, polls + 1)
    /\ IF found THEN PollReturns("deals")
       ELSE IF polls < initialScanRetries THEN PollSleeps
       ELSE PollReturns("[]")
    /\ UNCHANGED <<waitFn, elapsed>>
    /\ UNCHANGED outsidePolls

\* the setTimeout callback of the call runs, in time or one delay late
PollTimer(late) ==
    /\ wpc = "timer"
    /\ wpc' = "test"
    /\ elapsed' = Min(ElapsedCap(waitFn),
                      elapsed + (IF late THEN 2 ELSE 1) * intervalMs(waitFn))
    /\ UNCHANGED <<waitFn, polls, wres>>
    /\ UNCHANGED outsidePolls

PollsNext ==
    \/ \E found \in BOOLEAN : WaitForTest(found)
    \/ \E ok \in BOOLEAN, editable \in BOOLEAN : tryOnce(ok, editable)
    \/ \E found \in BOOLEAN : scanDealsWithRetry(found)
    \/ \E late \in BOOLEAN : PollTimer(late)

SpecPolls == PollsInit /\ [][PollsNext]_vars

\* SpecPolls under the scheduling of the event loop: a call that can go on
\* does, and a timer that was set fires
SpecPollsFair ==
    /\ PollsInit /\ [][PollsNext]_vars
    /\ WF_vars(\E found \in BOOLEAN : WaitForTest(found))
    /\ WF_vars(\E ok \in BOOLEAN, editable \in BOOLEAN : tryOnce(ok, editable))
    /\ WF_vars(\E found \in BOOLEAN : scanDealsWithRetry(found))
    /\ WF_vars(\E late \in BOOLEAN : PollTimer(late))

(***************************************************************************)
(* SpecDriverFair: SpecDriver under the scheduling of the event loop: a    *)
(* timer that is due fires and a promise that can resolve does, so a tick  *)
(* that stays possible runs.  Nothing is assumed of the page.              *)
(***************************************************************************)
SpecDriverFair ==
    /\ DriverInit /\ [][DriverNext]_vars
    /\ WF_vars(EditorFound)
    /\ WF_vars(handleButtonsRecursive)
    /\ WF_vars(checkAndClickPostButton)
    /\ WF_vars(AfterPosten)

(***************************************************************************)
(* What an observer reads off a state.                                     *)
(***************************************************************************)
\* the messages call c gave to sendRaw, in order
HandedBy(c) ==
    LET hs == SelectSeq(handed, LAMBDA h : h.call = c)
    IN [k \in 1..Len(hs) |-> hs[k].msg]

Transmitted(c) == calls[c].pc = "wait" \/ calls[c].ret = "sent"
Deduped(c) == calls[c].ret \in {"in_flight", "recent"}
\* call c is past the duplicate check of lines 229-231
Checked(c) == Transmitted(c) \/ Deduped(c)
SameArgs(a, b) ==
    /\ calls[a].url = calls[b].url
    /\ calls[a].html = calls[b].html
    /\ calls[a].meta = calls[b].meta

CeilDiv(a, b) == (a + b - 1) \div b

(***************************************************************************)
(* C1.  Original statement: of two user calls with identical arguments,    *)
(* the second started right after the first and before any saved           *)
(* acknowledgement or error for their id, the first is transmitted and the *)
(* second returns a deduped status and hands nothing to the transport.     *)
(* Fails: for an empty payload both calls return empty_html and nothing is *)
(* transmitted; and the call whose digest resolves first is the one that   *)
(* transmits.                                                              *)
(***************************************************************************)
C1_SecondCallDeduped ==
    \A c \in DOMAIN calls :
        (/\ c + 1 \in DOMAIN calls
         /\ c \in UserCalls /\ c + 1 \in UserCalls
         /\ SameArgs(c, c + 1)
         /\ ~calls[c + 1].ackedAtStart
         /\ calls[c].pc = "done" /\ calls[c + 1].pc = "done")
        => /\ calls[c].ret = "sent"
           /\ Deduped(c + 1)
           /\ HandedBy(c + 1) = <<>>

\* user call c was started before any saved acknowledgement or missing_chunks error
\* for its id, and at its duplicate check no such error had been handled since the
\* last saved, nor a whole dedup window passed since a saved
Prompt(c) ==
    /\ c \in UserCalls
    /\ Checked(c)
    /\ ~calls[c].ackedAtStart
    /\ ~calls[c].chk.err
    /\ calls[c].chk.win # "after"

(***************************************************************************)
(* C1, amended.  Among the user calls with identical arguments and a       *)
(* non-empty payload that were started before any saved acknowledgement or *)
(* missing_chunks error for their id, and whose duplicate check comes      *)
(* before such an error and before the dedup window of a saved has         *)
(* elapsed, exactly one is transmitted - the one whose id digest resolves  *)
(* first - and every other one returns a deduped status and hands no       *)
(* message to the transport.                                               *)
(***************************************************************************)
C1_ExactlyOneTransfer ==
    \A c \in DOMAIN calls :
        Prompt(c) =>
            LET grp == {d \in DOMAIN calls : Prompt(d) /\ SameArgs(c, d)}
            IN /\ Cardinality({d \in grp : Transmitted(d)}) = 1
               /\ ~Transmitted(c) => Deduped(c) /\ HandedBy(c) = <<>>

\* the second of two identical calls is transmitted in full, the first is deduped
C1_Witness ==
    /\ Len(calls) >= 2
    /\ Prompt(1) /\ Prompt(2) /\ SameArgs(1, 2)
    /\ calls[1].ret = "in_flight" /\ HandedBy(1) = <<>>
    /\ calls[2].ret = "sent"

(***************************************************************************)
(* C2.  Original statement: a send whose duplicate check comes less than   *)
(* RECENT_WINDOW_MS after a saved acknowledgement of its id returns a      *)
(* deduped status and hands nothing to the transport; one whose check      *)
(* comes RECENT_WINDOW_MS or more after it is transmitted.                 *)
(* Fails: a missing_chunks error for the id after the saved deletes the    *)
(* ledger entry, and a send after the window is deduped while the id is in *)
(* flight again.                                                           *)
(***************************************************************************)
C2_SuppressedUntilWindow ==
    \A c \in DOMAIN calls :
        Checked(c) =>
            /\ calls[c].chk.win = "within" => Deduped(c) /\ HandedBy(c) = <<>>
            /\ calls[c].chk.win = "after" => Transmitted(c)

(***************************************************************************)
(* C2, amended.  A send whose duplicate check comes less than              *)
(* RECENT_WINDOW_MS after the last saved acknowledgement of its id, with   *)
(* no missing_chunks error for the id handled since that saved, returns a  *)
(* deduped status and hands nothing to the transport; a send whose check   *)
(* comes RECENT_WINDOW_MS or more after the last saved is transmitted      *)
(* unless the id is in flight at that moment.                             *)
(***************************************************************************)
C2_DedupWindow ==
    \A c \in DOMAIN calls :
        Checked(c) =>
            /\ (calls[c].chk.win = "within" /\ ~calls[c].chk.err)
                   => Deduped(c) /\ HandedBy(c) = <<>>
            /\ (calls[c].chk.win = "after" /\ ~calls[c].chk.busy)
                   => Transmitted(c)

\* the first call was transmitted and saved; the second, checked after the window,
\* has been transmitted again under the same id
C2_Witness ==
    /\ Len(calls) >= 2
    /\ calls[1].ret = "sent" /\ calls[2].ret = "sent"
    /\ calls[1].id = calls[2].id
    /\ calls[2].chk.win = "after"
    /\ ~calls[2].chk.err

(***************************************************************************)
(* C3.  The resend started by a missing_chunks error for id X is made      *)
(* under an id different from X.                                           *)
(* Fails: the salt of the resend is String(Date.now()); an error for a     *)
(* resend's id handled while Date.now() still has the value that resend    *)
(* was salted with gives the same id again.                                *)
(***************************************************************************)
C3_ResendUnderNewId ==
    \A c \in RetryCalls : Transmitted(c) => calls[c].id # calls[c].cause

(***************************************************************************)
(* C4.  Automatic resends are bounded: only an original send (one without  *)
(* salt) is resent, and only once.                                         *)
(* Fails: the missing_chunks branch keeps no count; every error for a      *)
(* cached id starts another resend.                                        *)
(***************************************************************************)
C4_ResentOnce ==
    \A c \in RetryCalls :
        /\ calls[c].cause[3] = NoSalt
        /\ \A d \in RetryCalls : calls[d].cause = calls[c].cause => d = c

(***************************************************************************)
(* C5.  Decoding the chunks returned by chunkUtf8Base64(str, bytesPerChunk)*)
(* and concatenating them in order gives exactly the UTF-8 bytes of str,   *)
(* totalBytes is their number, and for a str without unpaired surrogates   *)
(* decoding those bytes gives str back.                                    *)
(***************************************************************************)
C5_RoundTrip ==
    cres # NoResult =>
        /\ Reassemble(cres.chunks) = TextEncode(cstr)
        /\ cres.totalBytes = Len(TextEncode(cstr))
        /\ WellFormed(cstr) => TextDecode(Reassemble(cres.chunks)) = cstr

\* "A€é" in chunks of 2 bytes: the 3 bytes of "€" lie in the first and second chunk,
\* and the payload is three times the chunk size
C5_Witness ==
    /\ cres # NoResult
    /\ cstr = <<65, 8364, 233>>
    /\ cbpc = 2
    /\ Len(cres.chunks) = 3
    /\ Reassemble(cres.chunks) = <<65, 226, 130, 172, 195, 169>>

(***************************************************************************)
(* C6.  A transmitted payload of L UTF-8 bytes is announced by a begin     *)
(* message with total = N and totalBytes = L and sent as exactly           *)
(* N = ceil(L / BytesPerChunk) chunk messages with seq 0..N-1 and          *)
(* total = N; and the loop of chunkUtf8Base64 makes 3 chunks, starting at  *)
(* 0, 60000 and 120000, of 150000 bytes with bytesPerChunk 60000.          *)
(***************************************************************************)
C6_ChunkCount ==
    /\ \A c \in DOMAIN calls :
           Transmitted(c) =>
               LET L == Len(TextEncode(calls[c].html))
                   N == CeilDiv(L, BytesPerChunk)
                   ms == HandedBy(c)
                   cm == SelectSeq(ms, LAMBDA m : m.type = "chunk")
               IN /\ ms[1].type = "begin"
                  /\ ms[1].total = N
                  /\ ms[1].totalBytes = L
                  /\ calls[c].ret = "sent" =>
                         /\ Len(cm) = N
                         /\ \A k \in 1..Len(cm) : cm[k].seq = k - 1 /\ cm[k].total = N
    /\ ChunkStarts(0, 150000, 60000) = <<0, 60000, 120000>>
    /\ CeilDiv(150000, 60000) = 3

\* the 5 bytes of "€é" have gone out as 3 chunks, the last one partial
C6_Witness ==
    \E c \in DOMAIN calls :
        /\ calls[c].ret = "sent"
        /\ calls[c].html = Long
        /\ Len(SelectSeq(HandedBy(c), LAMBDA m : m.type = "chunk"))
               = CeilDiv(5, BytesPerChunk)
        /\ Len(TextEncode(Long)) % BytesPerChunk # 0

(***************************************************************************)
(* C7.  The messages one call hands to the transport are, in this order:   *)
(* nothing before its duplicate check or when it is deduped; one begin     *)
(* while it waits for begin_ack; one begin, the chunks with seq 0, 1, ..,  *)
(* N-1 and one end once it has returned - all with the id of the call.     *)
(***************************************************************************)
C7_TransferOrder ==
    \A c \in DOMAIN calls :
        LET ms == HandedBy(c)
            n == Len(ms)
        IN /\ \A k \in 1..n : ms[k].id = calls[c].id
           /\ ~Transmitted(c) => ms = <<>>
           /\ calls[c].pc = "wait" => n = 1 /\ ms[1].type = "begin"
           /\ calls[c].ret = "sent" =>
                  /\ n >= 2
                  /\ ms[1].type = "begin"
                  /\ \A k \in 2..(n - 1) : ms[k].type = "chunk" /\ ms[k].seq = k - 2
                  /\ ms[n].type = "end"
                  /\ n - 2 = ms[1].total

\* a transfer of three chunks handed over in full while another call still waits
C7_Witness ==
    \E c, d \in DOMAIN calls :
        /\ calls[c].ret = "sent"
        /\ Len(HandedBy(c)) = 5
        /\ calls[d].pc = "wait"
        /\ Len(HandedBy(d)) = 1

(***************************************************************************)
(* C8.  The messages on the wire, followed by those still buffered in      *)
(* outbox, are the messages given to sendRaw, in the order of the sendRaw  *)
(* calls: nothing is reordered, duplicated or dropped by buffering.        *)
(***************************************************************************)
C8_WireOrder ==
    [k \in 1..Len(wire) |-> wire[k].msg] \o outbox
        = [k \in 1..Len(handed) |-> handed[k].msg]

\* begin went out on the first socket; the chunks and the end, buffered after the
\* drop, were flushed to the second socket
C8_Witness ==
    /\ outbox = <<>>
    /\ \E i, j, k \in DOMAIN wire :
           /\ i < j /\ j < k
           /\ wire[i].msg.type = "begin" /\ wire[i].sock = 1 /\ wire[i].via = "sendRaw"
           /\ wire[j].msg.type = "chunk" /\ wire[j].sock = 2 /\ wire[j].via = "flush"
           /\ wire[k].msg.type = "end" /\ wire[k].sock = 2 /\ wire[k].via = "flush"
           /\ wire[j].msg.id = wire[i].msg.id
           /\ wire[k].msg.id = wire[i].msg.id

(***************************************************************************)
(* C9.  Every chunk message handed to the transport comes from a call that *)
(* was resumed by a begin_ack carrying the call's own id, or resumed when  *)
(* the 5 s of the begin_ack timeout had passed.                            *)
(***************************************************************************)
C9_ChunksAfterBeginAck ==
    \A i \in DOMAIN handed :
        handed[i].msg.type = "chunk" =>
            LET c == handed[i].call
            IN \/ calls[c].relBy = handed[i].msg.id
               \/ calls[c].relLate

\* two calls waited on the same socket; the begin_ack of one released it before the
\* timeout, the other still waits and has handed over no chunk
C9_Witness ==
    \E c, d \in DOMAIN calls :
        /\ calls[c].ret = "sent"
        /\ calls[c].relBy = calls[c].id
        /\ ~calls[c].relLate
        /\ calls[d].pc = "wait"
        /\ calls[d].id # calls[c].id
        /\ calls[d].waited < BEGIN_ACK_TIMEOUT_MS
        /\ \A k \in DOMAIN wire : wire[k].sock = 1 /\ wire[k].via = "sendRaw"
        /\ Len(wire) = Len(handed)
        /\ \E i, j \in DOMAIN handed :
               /\ i < j
               /\ handed[i].call = d
               /\ handed[j].call = c /\ handed[j].msg.type = "chunk"

(***************************************************************************)
(* C10.  A call that waits for begin_ack eventually returns {ok: true, id},*)
(* having handed its chunks and its end message to the transport, whatever *)
(* the server sends and whatever happens to the sockets.                   *)
(***************************************************************************)
C10_SendReturns ==
    \A c \in WaitCalls :
        (c \in DOMAIN calls /\ calls[c].pc = "wait")
            ~> (/\ c \in DOMAIN calls
                /\ calls[c].ret = "sent"
                /\ HandedBy(c)[Len(HandedBy(c))].type = "end")

\* a call resumed by the timer alone, its listener's socket replaced meanwhile: begin
\* went to the first socket, the chunks to the second
C10_Witness ==
    \E c \in DOMAIN calls :
        /\ calls[c].ret = "sent"
        /\ calls[c].relBy = NoCause
        /\ \E i, j \in DOMAIN wire :
               /\ wire[i].msg = HandedBy(c)[1]
               /\ wire[i].sock = 1
               /\ wire[j].msg.type = "chunk"
               /\ wire[j].msg.id = calls[c].id
               /\ wire[j].sock = 2

Scheduled == Len(timers') = Len(timers) + 1
NewDelay == timers'[Len(timers')]
Opened == \E s \in Sockets : readyState[s] = "CONNECTING" /\ readyState'[s] = "OPEN"

RelayDown == Live(readyState) = {} /\ NumSockets < env.sockets
FbDown == fbReadyState[socket] = "CLOSED" /\ Created(fbReadyState) < MaxKeeperSockets
WaDown ==
    /\ sock = 0 \/ waReadyState[sock] = "CLOSED"
    /\ Live(waReadyState) = {}
    /\ Created(waReadyState) < MaxKeeperSockets

C13_ProbeReconnects ==
    /\ [][/\ HbAlarm /\ RelayDown => readyState'[ws'] = "CONNECTING" /\ ws' # ws
          /\ FbKeepAlive /\ FbDown => fbReadyState'[socket'] = "CONNECTING" /\ socket' # socket
          /\ WaAlarm /\ WaDown => sock' # 0 /\ waReadyState'[sock'] = "CONNECTING"
         ]_vars
    /\ RelayDown ~> Live(readyState) # {}
    /\ FbDown ~> Live(fbReadyState) # {}
    /\ WaDown ~> Live(waReadyState) # {}

\* the relay's alarm reconnected before the reconnect timer of the lost socket ran,
\* and the two keepers are connecting again after the loss of their first socket
C13_Witness ==
    /\ readyState[1] = "CLOSED" /\ ws = 2 /\ readyState[2] = "CONNECTING"
    /\ Len(timers) = 1 /\ Len(calls) = 0
    /\ fbReadyState[1] = "CLOSED" /\ socket = 2 /\ fbReadyState[2] = "CONNECTING"
    /\ waReadyState[1] = "CLOSED" /\ sock = 2 /\ waReadyState[2] = "CONNECTING"

(***************************************************************************)
(* C14.  Original statement: a send call made after the connection was     *)
(* lost in the middle of a transfer of the same id, and that finds the id  *)
(* still in flight, supersedes the abandoned transfer and is transmitted.  *)
(* Fails: sendHTMLAsStream returns deduped "in_flight" for it, and the id  *)
(* leaves inFlight only on a saved or missing_chunks reply for it.         *)
(***************************************************************************)
C14_LaterSendSupersedes ==
    \A c \in DOMAIN calls :
        (calls[c].droppedAtStart /\ Checked(c) /\ calls[c].chk.busy) => Transmitted(c)

(***************************************************************************)
(* C15.  With transfers of different ids in flight at the same time, every *)
(* chunk message on the wire is directly followed by the next chunk of the *)
(* same id, and the last chunk by the end message of that id: the chunks   *)
(* of an id are in sequence order and no message of another transfer lies  *)
(* between the first chunk and the end of a transfer.                      *)
(***************************************************************************)
C15_NoInterleaving ==
    \A i \in DOMAIN wire :
        LET m == wire[i].msg
        IN m.type = "chunk" =>
               /\ i + 1 \in DOMAIN wire
               /\ wire[i + 1].msg.id = m.id
               /\ IF m.seq + 1 < m.total
                      THEN wire[i + 1].msg.type = "chunk" /\ wire[i + 1].msg.seq = m.seq + 1
                      ELSE wire[i + 1].msg.type = "end"

\* two transfers were in flight together: both begins went out before any chunk,
\* and the transfer begun second sent its chunks first
C15_Witness ==
    \E i, j, k, l \in DOMAIN wire :
        /\ i < j /\ j < k /\ k < l
        /\ wire[i].msg.type = "begin" /\ wire[j].msg.type = "begin"
        /\ wire[i].msg.id # wire[j].msg.id
        /\ wire[k].msg.type = "end" /\ wire[k].msg.id = wire[j].msg.id
        /\ wire[l].msg.type = "end" /\ wire[l].msg.id = wire[i].msg.id
        /\ wire[l - 1].msg.type = "chunk" /\ wire[k - 1].msg.type = "chunk"

(***************************************************************************)
(* C16.  The id of a transfer is determined by url, docType and salt: two  *)
(* calls of sendHTMLAsStream that reached makeStableId with equal url,     *)
(* docType and salt have the same id, whatever their html and the rest of  *)
(* their meta.                                                             *)
(***************************************************************************)
HasId(c) == calls[c].html # Empty
SameKey(a, b) ==
    /\ calls[a].url = calls[b].url
    /\ calls[a].meta.docType = calls[b].meta.docType
    /\ calls[a].meta.salt = calls[b].meta.salt

C16_IdOfKey ==
    \A a, b \in DOMAIN calls :
        (HasId(a) /\ HasId(b) /\ SameKey(a, b)) => calls[a].id = calls[b].id

\* a changed version of a page is sent while the first is in flight: same id,
\* different html, and the second call is deduped
C16_Witness ==
    \E a, b \in DOMAIN calls :
        /\ a < b /\ SameKey(a, b)
        /\ calls[a].html = Short /\ calls[b].html = Long
        /\ calls[a].id = calls[b].id
        /\ Transmitted(a) /\ calls[b].ret = "in_flight"

(***************************************************************************)
(* What an observer reads off the last polling tick.                       *)
(***************************************************************************)
Ticked == ticks > 0
Present(b) == lastTick.seen[b] # "absent"
Flagged(b) == lastTick.seen[b] = "disabled"
Selected(b) == lastTick.sel = b
Clicked(b) == lastTick.sel = b /\ lastTick.act = "click"

(***************************************************************************)
(* C17.  Original statement: every polling tick selects the first of       *)
(* Posten, Weiter, Jetzt nicht that is present in the document at that     *)
(* tick, and nothing when none is present.                                 *)
(* Fails for checkAndClickPostButton (part_001), which looks for Posten    *)
(* and Weiter only: with just "Jetzt nicht" present it selects nothing.    *)
(***************************************************************************)
C17_PriorityOrder ==
    Ticked =>
        /\ lastTick.sel \in Buttons \cup {"none"}
        /\ Selected("Posten") <=> Present("Posten")
        /\ Selected("Weiter") <=> ~Present("Posten") /\ Present("Weiter")
        /\ Selected("Jetzt nicht") <=>
               ~Present("Posten") /\ ~Present("Weiter") /\ Present("Jetzt nicht")
        /\ Selected("none") <=> \A b \in Buttons : ~Present(b)

(***************************************************************************)
(* C17, amended.  Every polling tick selects exactly one candidate or      *)
(* none: the first that is present in the document at that tick, of        *)
(* Posten, Weiter, Jetzt nicht in handleButtonsRecursive, and of Posten,   *)
(* Weiter in checkAndClickPostButton.                                      *)
(***************************************************************************)
C17_PriorityOfScript ==
    Ticked =>
        /\ lastTick.sel \in Buttons \cup {"none"}
        /\ Selected("Posten") <=> Present("Posten")
        /\ Selected("Weiter") <=> ~Present("Posten") /\ Present("Weiter")
        /\ Selected("Jetzt nicht") <=>
               /\ script # "legacy"
               /\ ~Present("Posten") /\ ~Present("Weiter") /\ Present("Jetzt nicht")
        /\ Selected("none") <=>
               \A b \in Buttons : Present(b) => script = "legacy" /\ b = "Jetzt nicht"

\* a tick of handleButtonsRecursive found Weiter and "Jetzt nicht" and took Weiter;
\* the document has changed since
C17_Witness ==
    /\ script = "content" /\ Ticked
    /\ ~Present("Posten") /\ Present("Weiter") /\ Present("Jetzt nicht")
    /\ Clicked("Weiter")
    /\ doc.btn["Posten"] = "enabled"

(***************************************************************************)
(* C18.  A Posten or Weiter button that a tick finds with aria-disabled    *)
(* set is not clicked: the tick ends in a wait of 1000..2000 ms with the   *)
(* run still polling, and Posten and Weiter are clicked only on ticks that *)
(* saw them enabled.  The tick that follows a wait looks at the document   *)
(* of its own time and takes the first candidate present, from Posten on.  *)
(***************************************************************************)
Guarded == {"Posten", "Weiter"}
TickStep == lastTick' # lastTick \/ ticks' # ticks

NothingToFind ==
    \/ dpc = "waitTextbox" /\ ~doc.textbox
    \/ dpc = "sleep" /\ \A b \in Buttons : doc.btn[b] = "absent"

C19_TimesOut == NothingToFind ~> (dpc = "timeout" \/ ~NothingToFind)

(***************************************************************************)
(* C20.  Once Posten has been clicked no further polling tick runs: the    *)
(* tick that clicked Posten stays the last one, the run is in its closing  *)
(* part and then completes, and Posten is clicked at most once; after a    *)
(* click on Weiter or on "Jetzt nicht" the run is polling and its next     *)
(* tick is due.                                                            *)
(***************************************************************************)
PostenClicked == postenClicks >= 1
NextTickDue == ENABLED (handleButtonsRecursive \/ checkAndClickPostButton)

C20_PostenEndsRun ==
    /\ [](postenClicks <= 1)
    /\ [](PostenClicked => Clicked("Posten") /\ dpc \in {"posted", "done"} /\ ~NextTickDue)
    /\ [][PostenClicked => ~TickStep]_vars
    /\ []((Clicked("Weiter") \/ Clicked("Jetzt nicht")) => dpc = "sleep" /\ NextTickDue)
    /\ PostenClicked ~> dpc = "done"

\* the run has completed after more than one tick, and the Posten button it
\* clicked once is still in the document, enabled
C20_Witness ==
    /\ postenClicks = 1 /\ dpc = "done"
    /\ ticks >= 2
    /\ doc.btn["Posten"] = "enabled" /\ doc.btn["Weiter"] = "enabled"

(***************************************************************************)
(* C21.  Every wait randomSleep(min, max) with integers min <= max lasts a *)
(* delay d with min <= d <= max, and each call draws its delay anew: the   *)
(* delay of one call does not fix the delay of the next.                   *)
(***************************************************************************)
C21_DelayInRange ==
    \A i \in DOMAIN sleepDelays :
        sleepMin <= sleepDelays[i] /\ sleepDelays[i] <= sleepMax

\* two calls with min < max, the first waits min and the second max
C21_Witness ==
    /\ Len(sleepDelays) = 2
    /\ sleepMin < sleepMax
    /\ sleepDelays[1] = sleepMin
    /\ sleepDelays[2] = sleepMax

(***************************************************************************)
(* C22.  Original statement: a tick whose click raises is caught for that  *)
(* step and counts as continue-polling: the run is polling afterwards (its *)
(* next tick is scheduled); it has neither ended nor moved on as if the    *)
(* click had been made.                                                    *)
(* Fails: content.js and part_001 do not catch the exception, which ends   *)
(* the run; part_000 catches it and goes on as after a click, so that a    *)
(* raised click on Posten leads into the closing part of the run.          *)
(***************************************************************************)
C22_RaiseKeepsPolling ==
    (Ticked /\ lastTick.act = "raised") => dpc = "sleep"

(***************************************************************************)
(* C23.  Original statement: when the trigger element of a remote_post     *)
(* command is not found, the run ends without a paste or a button click,   *)
(* and the sender of the command gets a result value with ok = false.      *)
(* Fails in its second part: the run ends at the return of line 51 and     *)
(* nothing is dispatched, but sendResponse is never called and nothing is  *)
(* written to the socket; the sender's callback runs without a response,   *)
(* as it does when the trigger was found.                                  *)
(***************************************************************************)
C23_NoTriggerSurfaced ==
    /\ [](dpc = "noTrigger" =>
             /\ response \notin {"pending", "undefined"}
             /\ response.ok = FALSE)
    /\ [][dpc = "noTrigger" => UNCHANGED <<dpc, lastTick, ticks, postenClicks>>]_vars

(***************************************************************************)
(* C24.  Original statement: after an abort has been requested of a loop   *)
(* (loopAbort set for the popup's sequence loop, STOP_LINK_OPENER for the  *)
(* link opener) the loop does no further work: the popup issues no         *)
(* RUN_SANITIZER or PARSED_HTML, the link opener opens no further link.    *)
(* Fails for the link opener: isRunning is one flag for all invocations,   *)
(* and a RUN_LINK_OPENER that arrives while the stopped loop is still in   *)
(* its sleep sets it again, so the stopped loop goes on opening links.     *)
(***************************************************************************)
C24_NoWorkAfterAbort ==
    /\ ~popupLate
    /\ \A r \in OpenerRuns : ~runs[r].late

(***************************************************************************)
(* C25.  The dedup ledger recentlySent gains an entry for an id (a new     *)
(* one, or a newer timestamp) only in a step that receives a saved         *)
(* acknowledgement naming that id - not in a send, a begin_ack, an ack, an *)
(* error or a timeout - and directly after such a step the ledger holds no *)
(* entry older than RECENT_WINDOW_MS.                                      *)
(***************************************************************************)
Inserted(id) ==
    /\ id \in DOMAIN recentlySent'
    /\ id \in DOMAIN recentlySent => recentlySent'[id] < recentlySent[id]

C25_LedgerLifecycle ==
    [][\A id \in DOMAIN recentlySent' :
           Inserted(id) =>
               /\ \E s \in Sockets : Receive(s, [type |-> "saved", id |-> id])
               /\ \A k \in DOMAIN recentlySent' :
                      recentlySent'[k] <= RECENT_WINDOW_MS
      ]_vars

\* an id was just saved, and the entry of an id saved more than a window ago,
\* with no missing_chunks retry since, is gone from the ledger
C25_Witness ==
    \E a \in DOMAIN recentlySent, b \in DOMAIN savedAt :
        /\ recentlySent[a] = 0
        /\ savedAt[b] > RECENT_WINDOW_MS
        /\ b \notin errSince
        /\ b \notin DOMAIN recentlySent

(***************************************************************************)
(* C26.  Original statement: each deal id is taken from the queue for a    *)
(* click at most once, over page reloads and over restarts of the service  *)
(* worker: once dequeued it is in processed and in the storage, and it is  *)
(* never enqueued again.                                                   *)
(* Fails after a restart: start() does not wait for loadProcessedIds, so a *)
(* scan that completes before the ids have arrived finds processed empty   *)
(* and enqueues an id that was clicked before the restart.                 *)
(***************************************************************************)
C26_DispatchedOnce ==
    /\ \A d \in DealIds : dispatched[d] <= 1
    /\ \A d \in DealIds :
           dispatched[d] >= 1 => d \in stored /\ \A k \in DOMAIN queue : queue[k] # d

(***************************************************************************)
(* C27.  Original statement: any two reloads issued by checkForReload are  *)
(* at least RELOAD_EVERY_MS (30 s) apart, also when two invocations        *)
(* overlap at the await of the tab query.                                  *)
(* Fails: the interval is tested before the await and lastReloadTime is    *)
(* written after it, so an invocation that starts while another is         *)
(* suspended at the query passes the test too, and both reload.            *)
(***************************************************************************)
Reloading == reloadChecks' = reloadChecks - 1 /\ lastCheck' = "reloaded"

C27_ReloadsApart == [][Reloading => sinceReload >= RELOAD_EVERY_MS]_vars

(***************************************************************************)
(* C28.  A step of checkForReload that reloads the tab empties the queue   *)
(* and leaves processed (and the storage) as they are; every other step of *)
(* checkForReload - the return because the interval has not elapsed, the   *)
(* suspension at the tab query, the return because the active tab does not *)
(* match - leaves queue, processed and lastReloadTime as they are.         *)
(***************************************************************************)
CheckStep ==
    /\ restarts' = restarts
    /\ lastCheck' # lastCheck \/ reloadChecks' # reloadChecks

C28_ReloadFrame ==
    [][CheckStep =>
           IF Reloading
               THEN queue' = <<>> /\ processed' = processed /\ stored' = stored
               ELSE UNCHANGED <<queue, processed, lastReloadTime>>
      ]_vars

\* a reload has just been made: the queue is empty, one deal has been clicked
\* and is in processed, the other has not
C28_Witness ==
    /\ lastCheck = "reloaded" /\ lastReloadTime = 0
    /\ queue = <<>>
    /\ \E d, f \in DealIds : d \in processed /\ dispatched[d] = 1 /\ dispatched[f] = 0

(***************************************************************************)
(* C29.  Original statement: a tab tracked after a deal click is closed    *)
(* only after its final URL has been sent over the WebSocket; no tab is    *)
(* closed, or about to be closed, whose URL was not transmitted.           *)
(* Fails: sendUrlViaWebSocket writes only to an open socket and otherwise  *)
(* drops the URL, and logFinalUrlOnce sets the close timer either way.     *)
(***************************************************************************)
C29_ClosedAfterSent ==
    \A x \in TabIds : (tabs[x].state = "closed" \/ x \in closeTimers) => x \in urlSent

(***************************************************************************)
(* C30.  Original statement: for one URL the Amazon content script sends   *)
(* the page HTML at most once per MIN_RUN_INTERVAL_MS, whichever events    *)
(* invoke safeRun and also when safeRun invocations overlap at their       *)
(* awaits: whenever the HTML of a URL is sent, the last send of that URL   *)
(* is at least the interval old.                                           *)
(* Fails: safeRun tests lastRunUrl / lastRunAt before its awaits and       *)
(* writes them after the send, so overlapping invocations all pass the     *)
(* test; and lastRunUrl remembers only the latest URL.                     *)
(***************************************************************************)
C30_OncePerInterval ==
    [][\A run \in BagToSet(safeRuns) :
          PipelineDone(run) => sentAge[run.href] >= MIN_RUN_INTERVAL_MS]_vars


(***************************************************************************)
(* C31.  On an Amazon product page no HTML is sent in a round unless       *)
(* ensureStripeLinkReadyForCurrentProduct returned true in it: the round   *)
(* that sends has asked for the link of a URL and that URL is in           *)
(* linkReadyForUrl.  A round whose wait for the link timed out ends there, *)
(* sends nothing and leaves lastRunAt and lastRunUrl as they were, with    *)
(* and without the opener trigger.                                         *)
(***************************************************************************)
C31_NoSendWithoutLink ==
    [][\A run \in BagToSet(safeRuns) :
          /\ PipelineDone(run) /\ isAmazonProductPath(location)
                => run.key # "" /\ run.key \in linkReadyForUrl
          /\ LinkWaited(run, FALSE)
                => /\ UNCHANGED <<lastRunAt, lastRunUrl, lastHtml, sentAge>>
                   /\ BagCardinality(safeRuns') < BagCardinality(safeRuns)]_vars

\* a product page was sent under the opener trigger, its link ready
C31_Witness ==
    /\ lastHtml = [type |-> "PRODUCT_HTML", url |-> "/dp/B000000001?ext_trigger=send_html"]
    /\ location = lastHtml.url
    /\ location \in linkReadyForUrl
    /\ "/dp/B000000001" \notin linkReadyForUrl


(***************************************************************************)
(* C32.  Original statement: the SiteStripe get-link button is clicked at  *)
(* most once per URL over the lifetime of the content script, also when    *)
(* several safeRun invocations for the URL overlap while waiting for the   *)
(* button.                                                                 *)
(* Fails: clickedOnceForUrl is tested before the await on                  *)
(* waitForStripeButton and added to after it, so every invocation that     *)
(* waits for the button clicks it.                                         *)
(***************************************************************************)
C32_ClickedOnce == \A u \in AmazonUrls : stripeClicks[u] <= 1


(***************************************************************************)
(* C33.  The content script asks the background to close the tab only upon *)
(* a PRODUCT_HTML message whose transfer the background reported as done   *)
(* (ok with an id, sent or deduped), and without a runtime error: the      *)
(* answer to a PARSED_HTML message never closes the tab, and a             *)
(* PRODUCT_HTML message that failed or is not answered yet never does.     *)
(***************************************************************************)
C33_CloseOnlyOnProductOk ==
    \A c \in DOMAIN calls, lastError \in BOOLEAN :
        CloseAsked(c, lastError) =>
            /\ ~lastError
            /\ calls[c].meta.docType = "product"
            /\ calls[c].ret \in {"sent", "in_flight", "recent"}

\* a product page went through and closes the tab, the deals page sent before
\* it went through and did not
C33_Witness ==
    /\ Len(calls) = 2
    /\ calls[1].meta.docType = "generic" /\ calls[1].ret = "sent"
    /\ ~CloseAsked(1, FALSE)
    /\ calls[2].meta.docType = "product" /\ calls[2].ret = "sent"
    /\ CloseAsked(2, FALSE)


(***************************************************************************)
(* C34.  Every bounded polling wait terminates: each call returns, also    *)
(* when its condition never becomes true.  waitForStripeButton and         *)
(* waitForAffiliateLink then return null, and only once their timeout has  *)
(* elapsed; clickSendRobust then resolves, and only once its deadline of   *)
(* 1 s has passed; scanDealsWithRetry makes at most retries + 1 scans and  *)
(* returns the empty list after exactly that many.                         *)
(***************************************************************************)
C34_PollsTerminate ==
    /\ <>(wpc = "returned")
    /\ [](wres = "null" => elapsed >= timeoutMs(waitFn))
    /\ [](wres \in {"enter", "false"} => elapsed > CLICK_SEND_DEADLINE_MS)
    /\ [](wpc = "returned" /\ waitFn \in {"waitForStripeButton", "waitForAffiliateLink"}
             => wres \in {"null", "found"})
    /\ [](waitFn = "scanDealsWithRetry" => polls <= initialScanRetries + 1)
    /\ [](wres = "[]" => polls = initialScanRetries + 1)

\* the wait for the affiliate link has given up after looking a hundred times
C34_Witness ==
    /\ waitFn = "waitForAffiliateLink"
    /\ wpc = "returned" /\ wres = "null"
    /\ polls = AFFILIATE_LINK_TIMEOUT_MS \div AFFILIATE_LINK_INTERVAL_MS


(***************************************************************************)
(* C35.  Original statement: in every reachable state of the deal          *)
(* scheduler the queue holds no two items with the same id and no id that  *)
(* is in the processed set, whatever the interleaving of scans, dequeues,  *)
(* reloads and the start-up load of the persisted ids.                     *)
(* Fails: a scan that runs before loadProcessedIds has resumed queues an   *)
(* id of the storage, and the load then adds that id to processed.         *)
(***************************************************************************)
C35_QueueClean ==
    /\ \A i, j \in DOMAIN queue : i # j => queue[i] # queue[j]
    /\ \A k \in DOMAIN queue : queue[k] \notin processed

\* the first half alone: no id is queued twice
C35_NoDuplicates == \A i, j \in DOMAIN queue : i # j => queue[i] # queue[j]


(***************************************************************************)
(* C36.  Original statement: the persisted set of processed deal ids never *)
(* loses an id; each save writes a superset of what was persisted before,  *)
(* also when openNextInQueue saves before the start-up loadProcessedIds    *)
(* has completed.                                                          *)
(* Fails: a save made before the load has resumed writes the set in        *)
(* memory, which does not yet hold the ids of the storage.                 *)
(***************************************************************************)
C36_StoredGrows == [][stored \subseteq stored']_vars


(***************************************************************************)
(* C37.  Original statement: only a tab opened by a deal click is tracked  *)
(* and closed by the scheduler; a tab created for any other reason (by the *)
(* user, or after a click that opened no tab) is never captured as the     *)
(* expected tab and never closed.                                          *)
(* Fails: handleNewTab takes the first tab created while isDealClicking is *)
(* set, whoever created it, and a click that was answered with clicked     *)
(* leaves the flag set until some tab is created.                          *)
(***************************************************************************)
C37_OnlyDealTabs ==
    \A x \in TabIds :
        (x = expectedTabId \/ x \in closeTimers \/ tabs[x].state = "closed")
            => tabs[x].by = "deal"

====
